---- MODULE Spec2Model ----
(***************************************************************************)
(* muDB: the storage engine (src/src/storage/db.rs), the command layer     *)
(* (src/src/command/*.rs) and the RESP codec (src/src/resp/*.rs).          *)
(*                                                                         *)
(* The specifications share the definitions of this module:                *)
(*   Spec      - commands executed one after another against the store;    *)
(*               an action is one whole Command::execute                   *)
(*   SpecDB    - Spec, and the calls of DB that no command frame makes     *)
(*   SpecConc  - connection tasks running store operations concurrently    *)
(*               under the RwLock of DB                                    *)
(*   SpecLive  - SpecConc with tasks that wait for the lock, PING, and a   *)
(*               fair lock and scheduler                                   *)
(*   SpecCodec - a byte stream cut into reads and fed to                   *)
(*               RespCommandFrame::decode                                  *)
(*   SpecStream - any bytes, well-formed or not, cut into reads and fed to  *)
(*               RespCommandFrame::decode                                  *)
(*   SpecWire  - values encoded with RespType::to_bytes and parsed back    *)
(*   SpecConn  - connections served by FrameHandler::handle over one store *)
(*   SpecCmd   - command frames of every name and arity given to           *)
(*               Command::from_resp_command_frame and executed             *)
(***************************************************************************)
EXTENDS Integers, Sequences, FiniteSets, Bags, TLC

VARIABLES
    data,       \* DB.data: HashMap<String, Entry>, as a function on Keys
    cmd,        \* Spec: the command executed last
    reply,      \* Spec: the RespType that command produced
    last_set,   \* Spec: per key, the value of the last SET that succeeded
    lock,       \* SpecConc: the RwLock around DB.data: its writer and readers
    task,       \* SpecConc: per connection task, where it is in its command
    committed,  \* SpecConc: the map as the last finished writer left it
    pushed,     \* SpecConc: per key, the bag of values pushed successfully
    sent,       \* SpecCodec: the command frames the client has written
    wire,       \* SpecCodec: their bytes that no read has delivered yet
    read_buf,   \* SpecCodec: the read buffer handed to decode as src
    cmd_builder, \* SpecCodec: RespCommandFrame.cmd_builder
    result,     \* SpecCodec: what the last decode call returned
    emitted,    \* SpecCodec: the frames decode has returned so far
    item,       \* SpecWire: the RespType to encode
    dst,        \* SpecWire: the bytes Encoder::encode has put
    back,       \* SpecWire: what a parser made of these bytes
    conn,       \* SpecConn: per connection, its socket and its FrameHandler
    script,     \* SpecConn: per connection, the units its client writes
    cmd_frame,  \* SpecCmd: the command frame dispatched last
    parsed      \* SpecCmd: what Command::from_resp_command_frame made of it

storeVars == <<data, cmd, reply, last_set>>

seqVars == <<cmd, reply, last_set>>

concVars == <<lock, task, committed, pushed>>

codecVars == <<sent, wire, read_buf, cmd_builder, result, emitted>>

wireVars == <<item, dst, back>>

connVars == <<conn, script>>

cmdVars == <<cmd_frame, parsed>>

vars == <<data, cmd, reply, last_set, lock, task, committed, pushed,
          sent, wire, read_buf, cmd_builder, result, emitted, item, dst, back,
          conn, script, cmd_frame, parsed>>

(***************************************************************************)
(* Bounds and input sets                                                   *)
(***************************************************************************)
Keys == {"k1", "k2"}

Vals == {"a", "b", "c"}

\* most elements all lists of the store hold together
MaxElems == 3

\* LRANGE indices are drawn from -MaxIdx .. MaxIdx
MaxIdx == 2

Idxs == (0 - MaxIdx) .. MaxIdx

\* value vectors of LPUSH / RPUSH: one or two values out of "a" and "b",
\* and the three distinct values "a" "b" "c"
ValueVecs ==
    { <<x>> : x \in {"a", "b"} }
    \cup [1..2 -> {"a", "b"}]
    \cup { <<"a", "b", "c">> }

(***************************************************************************)
(* Value, Entry                                                            *)
(***************************************************************************)
NoEntry == [type |-> "None"]

StringEntry(s) == [type |-> "String", s |-> s]

ListEntry(l) == [type |-> "List", l |-> l]

IsString(e) == e.type = "String"

IsList(e) == e.type = "List"

\* DB::new
EmptyDB == [k \in Keys |-> NoEntry]

\* the number of list elements in the store
RECURSIVE SumLens(_, _)
SumLens(d, ks) ==
    IF ks = {} THEN 0
    ELSE LET k == CHOOSE x \in ks : TRUE
         IN  (IF IsList(d[k]) THEN Len(d[k].l) ELSE 0) + SumLens(d, ks \ {k})

Elems(d) == SumLens(d, Keys)

(***************************************************************************)
(* DB operations.  A result is [err, val, data]: err is "none" for Ok,     *)
(* "WrongType" for Err(DBError::WrongType), "panic" when the call panics;  *)
(* data is the map after the call.                                         *)
(***************************************************************************)
Ok(v, d) == [err |-> "none", val |-> v, data |-> d]

Err(e, d) == [err |-> e, val |-> <<>>, data |-> d]

\* Option<String> of DB::get
NoneVal == [some |-> FALSE]

SomeVal(s) == [some |-> TRUE, s |-> s]

\* get that drops the entry it finds to be of the wrong type
get_evicts_wrong_type(d, k) ==
    IF d[k].type = "None" THEN Ok(NoneVal, d)
    ELSE IF IsString(d[k]) THEN Ok(SomeVal(d[k].s), d)
    ELSE Err("WrongType", [d EXCEPT ![k] = NoEntry])

get(d, k) ==
    IF d[k].type = "None" THEN Ok(NoneVal, d)
    ELSE IF IsString(d[k]) THEN Ok(SomeVal(d[k].s), d)
    ELSE Err("WrongType", d)

\* set without the check of the variant the key holds
set_unchecked(d, k, v) == Ok(<<>>, [d EXCEPT ![k] = StringEntry(v)])

\* set that inserts before it checks the variant
set_insert_first(d, k, v) ==
    IF d[k].type # "None" /\ ~IsString(d[k])
    THEN Err("WrongType", [d EXCEPT ![k] = StringEntry(v)])
    ELSE Ok(<<>>, [d EXCEPT ![k] = StringEntry(v)])

\* set that leaves the value of a key that holds a String already
set_keep_existing(d, k, v) ==
    IF d[k].type # "None" /\ ~IsString(d[k]) THEN Err("WrongType", d)
    ELSE IF IsString(d[k]) THEN Ok(<<>>, d)
    ELSE Ok(<<>>, [d EXCEPT ![k] = StringEntry(v)])

set(d, k, v) ==
    IF d[k].type # "None" /\ ~IsString(d[k]) THEN Err("WrongType", d)
    ELSE Ok(<<>>, [d EXCEPT ![k] = StringEntry(v)])

\* VecDeque::push_front, VecDeque::push_back
push_front(l, x) == <<x>> \o l

push_back(l, x) == Append(l, x)

\* for each in v.iter().cloned() { l.push_front(each) }
RECURSIVE push_front_all(_, _)
push_front_all(l, v) ==
    IF v = <<>> THEN l ELSE push_front_all(push_front(l, Head(v)), Tail(v))

\* for each in v.iter().cloned() { l.push_back(each) }
RECURSIVE push_back_all(_, _)
push_back_all(l, v) ==
    IF v = <<>> THEN l ELSE push_back_all(push_back(l, Head(v)), Tail(v))

\* VecDeque::from(v) of the None arm of lpush and rpush
VecDequeFrom(v) == v

\* a push that makes a list of a key that holds a string
lpush_over_string(d, k, v) ==
    IF IsList(d[k])
    THEN LET l == push_front_all(d[k].l, v)
         IN  Ok(Len(l), [d EXCEPT ![k] = ListEntry(l)])
    ELSE LET list == VecDequeFrom(v)
         IN  Ok(Len(list), [d EXCEPT ![k] = ListEntry(list)])

lpush(d, k, v) ==
    IF d[k].type # "None"
    THEN IF IsList(d[k])
         THEN LET l == push_front_all(d[k].l, v)
              IN  Ok(Len(l), [d EXCEPT ![k] = ListEntry(l)])
         ELSE Err("WrongType", d)
    ELSE LET list == VecDequeFrom(v)
         IN  Ok(Len(list), [d EXCEPT ![k] = ListEntry(list)])

\* a push that stores its values in place of the list
rpush_replaces_list(d, k, v) ==
    IF d[k].type # "None"
    THEN IF IsList(d[k])
         THEN LET l == push_back_all(<<>>, v)
              IN  Ok(Len(l), [d EXCEPT ![k] = ListEntry(l)])
         ELSE Err("WrongType", d)
    ELSE LET list == VecDequeFrom(v)
         IN  Ok(Len(list), [d EXCEPT ![k] = ListEntry(list)])

rpush(d, k, v) ==
    IF d[k].type # "None"
    THEN IF IsList(d[k])
         THEN LET l == push_back_all(d[k].l, v)
              IN  Ok(Len(l), [d EXCEPT ![k] = ListEntry(l)])
         ELSE Err("WrongType", d)
    ELSE LET list == VecDequeFrom(v)
         IN  Ok(Len(list), [d EXCEPT ![k] = ListEntry(list)])

\* i64 on I64Bits bits: the least i64 is the one whose abs() overflows
I64Bits == 8

I64Min == 0 - 2 ^ (I64Bits - 1)

I64Max == 2 ^ (I64Bits - 1) - 1

\* round_list_index with a negative index counted one too far from the end
round_list_index_one_early(list_len, idx) ==
    IF idx < 0
    THEN LET i == list_len - (0 - idx) - 1
         IN  IF i < 0 THEN 0 ELSE i
    ELSE IF idx >= list_len THEN list_len - 1
    ELSE idx

\* an i64 result: the value as two's complement keeps it, and whether the
\* operation overflowed (a panic where overflow checks are on)
wrapping_i64(x) == ((x - I64Min) % (2 ^ I64Bits)) + I64Min

Checked(x) == [overflow |-> x < I64Min \/ x > I64Max, value |-> wrapping_i64(x)]

\* i64::abs
abs_i64(idx) == Checked(IF idx < 0 THEN 0 - idx ELSE idx)

\* round_list_index with its i64 arithmetic: the position and whether a step
\* of the computation overflowed
round_list_index_i64(list_len, idx) ==
    IF idx < 0
    THEN LET a == abs_i64(idx)
             i == Checked(list_len - a.value)
         IN  [overflow |-> a.overflow \/ i.overflow,
              value |-> IF i.value < 0 THEN 0 ELSE i.value]
    ELSE IF idx >= list_len THEN [overflow |-> FALSE, value |-> list_len - 1]
    ELSE [overflow |-> FALSE, value |-> idx]

round_list_index(list_len, idx) == round_list_index_i64(list_len, idx).value

\* a range that leaves the stop index out
round_list_indices_exclusive_stop(list_len, start_idx, stop_idx) ==
    IF stop_idx < start_idx THEN <<0, 0>>
    ELSE LET rounded_start_idx == round_list_index(list_len, start_idx)
             rounded_stop_idx == round_list_index(list_len, stop_idx)
         IN  IF rounded_start_idx < rounded_stop_idx
             THEN <<rounded_start_idx, rounded_stop_idx>>
             ELSE IF rounded_stop_idx < rounded_start_idx THEN <<0, 0>>
             ELSE <<rounded_start_idx, rounded_start_idx + 1>>

\* the pair (start, end) of the half-open range lrange takes
round_list_indices(list_len, start_idx, stop_idx) ==
    IF stop_idx < start_idx THEN <<0, 0>>
    ELSE LET rounded_start_idx == round_list_index(list_len, start_idx)
             rounded_stop_idx == round_list_index(list_len, stop_idx)
         IN  IF rounded_start_idx < rounded_stop_idx
             THEN <<rounded_start_idx, rounded_stop_idx + 1>>
             ELSE IF rounded_stop_idx < rounded_start_idx THEN <<0, 0>>
             ELSE <<rounded_start_idx, rounded_start_idx + 1>>

\* VecDeque::range(from..to) collected: elements from..to-1 (0-based);
\* the call panics when the range does not lie inside the deque
RangeOk(l, from, to) == 0 <= from /\ from <= to /\ to <= Len(l)

Range(l, from, to) == SubSeq(l, from + 1, to)

\* lrange that takes the elements it returns out of the list
lrange_drains(d, k, start_idx, stop_idx) ==
    IF d[k].type = "None" THEN Ok(<<>>, d)
    ELSE IF IsList(d[k])
    THEN LET l == d[k].l
             r == round_list_indices(Len(l), start_idx, stop_idx)
         IN  IF RangeOk(l, r[1], r[2])
             THEN Ok(Range(l, r[1], r[2]),
                     [d EXCEPT ![k] = ListEntry(SubSeq(l, 1, r[1]) \o SubSeq(l, r[2] + 1, Len(l)))])
             ELSE Err("panic", d)
    ELSE Err("WrongType", d)

\* lrange that takes a key that is not in the map for a key of the wrong type
lrange_missing_is_error(d, k, start_idx, stop_idx) ==
    IF IsList(d[k])
    THEN LET l == d[k].l
             r == round_list_indices(Len(l), start_idx, stop_idx)
         IN  IF RangeOk(l, r[1], r[2]) THEN Ok(Range(l, r[1], r[2]), d)
             ELSE Err("panic", d)
    ELSE Err("WrongType", d)

lrange(d, k, start_idx, stop_idx) ==
    IF d[k].type = "None" THEN Ok(<<>>, d)
    ELSE IF IsList(d[k])
    THEN LET l == d[k].l
             r == round_list_indices(Len(l), start_idx, stop_idx)
         IN  IF RangeOk(l, r[1], r[2]) THEN Ok(Range(l, r[1], r[2]), d)
             ELSE Err("panic", d)
    ELSE Err("WrongType", d)

(***************************************************************************)
(* RespType and the command layer                                          *)
(***************************************************************************)
SimpleString(s) == [t |-> "SimpleString", s |-> s]

BulkString(s) == [t |-> "BulkString", s |-> s]

NullBulkString == [t |-> "NullBulkString"]

Array(a) == [t |-> "Array", a |-> a]

SimpleError(s) == [t |-> "SimpleError", s |-> s]

Integer(i) == [t |-> "Integer", i |-> i]

\* what no RespType is: the task panicked inside the call
Panicked == [t |-> "Panicked"]

NoReply == [t |-> "NoReply"]

\* impl Display for DBError
DBErrorText(e) ==
    IF e = "WrongType"
    THEN "WRONGTYPE Operation against a key holding the wrong kind of value"
    ELSE e

ErrReply(r) == IF r.err = "panic" THEN Panicked ELSE SimpleError(DBErrorText(r.err))

GetApply(r) ==
    IF r.err = "none"
    THEN IF r.val.some THEN BulkString(r.val.s) ELSE NullBulkString
    ELSE ErrReply(r)

SetApply(r) == IF r.err = "none" THEN BulkString("OK") ELSE ErrReply(r)

PushApply(r) == IF r.err = "none" THEN Integer(r.val) ELSE ErrReply(r)

LRangeApply(r) ==
    IF r.err = "none"
    THEN Array([i \in 1..Len(r.val) |-> BulkString(r.val[i])])
    ELSE ErrReply(r)

\* a parsed command: Get, Set, LPush, RPush or LRange
Command(op, k, v, s, e) == [op |-> op, key |-> k, vals |-> v, start |-> s, stop |-> e]

NoCommand == Command("none", "", <<>>, 0, 0)

\* lrange on a list reaches idx.abs() with idx = i64::MIN: the subtraction
\* overflows, which panics where overflow checks are on and wraps where they
\* are off (round_list_index then returns 0, as it does here)
LRangeOverflows(d, k, start_idx, stop_idx) ==
    /\ IsList(d[k])
    /\ stop_idx >= start_idx
    /\ start_idx = I64Min \/ stop_idx = I64Min

\* the DB call of each command's apply
Call(c, d) ==
    CASE c.op = "GET" -> get(d, c.key)
      [] c.op = "SET" -> set(d, c.key, c.vals[1])
      [] c.op = "LPUSH" -> lpush(d, c.key, c.vals)
      [] c.op = "RPUSH" -> rpush(d, c.key, c.vals)
      [] c.op = "LRANGE" -> lrange(d, c.key, c.start, c.stop)

\* Command::execute: the reply of the command given the result of its call
Apply(c, r) ==
    CASE c.op = "GET" -> GetApply(r)
      [] c.op = "SET" -> SetApply(r)
      [] c.op = "LPUSH" -> PushApply(r)
      [] c.op = "RPUSH" -> PushApply(r)
      [] c.op = "LRANGE" -> LRangeApply(r)

(***************************************************************************)
(* RESP bytes.  A byte is a number 0..255; a String is the sequence of its *)
(* code points (below 2048, so one or two bytes each in UTF-8).            *)
(***************************************************************************)
CR == 13

LF == 10

STAR == 42

DOLLAR == 36

PLUS == 43

MINUS == 45

COLON == 58

CRLF == <<CR, LF>>

\* the UTF-8 bytes of one code point
Utf8Char(cp) == IF cp < 128 THEN <<cp>> ELSE <<192 + (cp \div 64), 128 + (cp % 64)>>

\* String::into_bytes, String::as_bytes
RECURSIVE Utf8(_)
Utf8(str) == IF str = <<>> THEN <<>> ELSE Utf8Char(Head(str)) \o Utf8(Tail(str))

\* String::len: the length in bytes
ByteLen(str) == Len(Utf8(str))

\* str.chars().count()
CharCount(str) == Len(str)

Drop(buf, n) == SubSeq(buf, n + 1, Len(buf))

\* String::from_utf8: [ok, s]
RECURSIVE FromUtf8(_)
FromUtf8(buf) ==
    IF buf = <<>> THEN [ok |-> TRUE, s |-> <<>>]
    ELSE IF buf[1] < 128
    THEN LET r == FromUtf8(Tail(buf))
         IN  [ok |-> r.ok, s |-> <<buf[1]>> \o r.s]
    ELSE IF buf[1] >= 194 /\ buf[1] < 224 /\ Len(buf) >= 2 /\ buf[2] >= 128 /\ buf[2] < 192
    THEN LET r == FromUtf8(Drop(buf, 2))
         IN  [ok |-> r.ok, s |-> <<(buf[1] - 192) * 64 + (buf[2] - 128)>> \o r.s]
    ELSE [ok |-> FALSE, s |-> <<>>]

\* format!("{}", n) of a number that is not negative
RECURSIVE Dec(_)
Dec(n) == IF n < 10 THEN <<48 + n>> ELSE Dec(n \div 10) \o <<48 + (n % 10)>>

\* format!("{}", i) of an i64
DecInt(i) == IF i < 0 THEN <<MINUS>> \o Dec(0 - i) ELSE Dec(i)

IsDigit(b) == b >= 48 /\ b <= 57

RECURSIVE DigitsValue(_, _)
DigitsValue(acc, buf) ==
    IF buf = <<>> THEN acc ELSE DigitsValue(acc * 10 + (buf[1] - 48), Tail(buf))

\* RespType::parse_usize_from_buf: [ok, n]; str::parse::<usize> takes an
\* optional '+' and then one digit or more
parse_usize_from_buf(buf) ==
    LET digits == IF buf # <<>> /\ buf[1] = PLUS THEN Tail(buf) ELSE buf
    IN  IF FromUtf8(buf).ok /\ digits # <<>> /\ \A i \in 1..Len(digits) : IsDigit(digits[i])
        THEN [ok |-> TRUE, n |-> DigitsValue(0, digits)]
        ELSE [ok |-> FALSE, n |-> 0]

\* RespType::read_till_crlf: [found, line, size]: the bytes before the first
\* CR LF and the number of bytes up to and including it
read_till_crlf(buf) ==
    LET hits == {i \in 2..Len(buf) : buf[i - 1] = CR /\ buf[i] = LF}
    IN  IF hits = {} THEN [found |-> FALSE, line |-> <<>>, size |-> 0]
        ELSE LET i == CHOOSE h \in hits : \A g \in hits : h <= g
             IN  [found |-> TRUE, line |-> SubSeq(buf, 1, i - 2), size |-> i]

\* the result of the two length parsers: kind "None" is Ok(None), "Some" is
\* Ok(Some((len, bytes_read))), "Err" is Err(RespError)
LenNone == [kind |-> "None", len |-> 0, bytes_read |-> 0]

LenErr == [kind |-> "Err", len |-> 0, bytes_read |-> 0]

LenSome(n, b) == [kind |-> "Some", len |-> n, bytes_read |-> b]

\* a parser that looks at the leading byte before it looks for the CR LF
parse_len_prefix_first(src, prefix) ==
    LET r == read_till_crlf(src)
    IN  IF src # <<>> /\ src[1] # prefix THEN LenErr
        ELSE IF ~r.found THEN LenNone
        ELSE IF r.size < 4 THEN LenErr
        ELSE LET n == parse_usize_from_buf(Tail(r.line))
             IN  IF n.ok THEN LenSome(n.n, r.size) ELSE LenErr

parse_len(src, prefix) ==
    LET r == read_till_crlf(src)
    IN  IF ~r.found THEN LenNone
        ELSE IF r.size < 4 \/ r.line[1] # prefix THEN LenErr
        ELSE LET n == parse_usize_from_buf(Tail(r.line))
             IN  IF n.ok THEN LenSome(n.n, r.size) ELSE LenErr

parse_array_len(src) == parse_len(src, STAR)

parse_bulk_string_len(src) == parse_len(src, DOLLAR)

\* RespType::new_bulk_string: [ok, val, bytes_read]
BulkErr == [ok |-> FALSE, val |-> NullBulkString, bytes_read |-> 0]

new_bulk_string(buffer) ==
    LET r == read_till_crlf(Tail(buffer))
        n == parse_usize_from_buf(r.line)
        bytes_consumed == r.size + 1
        bulkstr_end_idx == bytes_consumed + n.n
        bulkstr == FromUtf8(SubSeq(buffer, bytes_consumed + 1, bulkstr_end_idx))
    IN  IF ~r.found \/ ~n.ok THEN BulkErr
        ELSE IF bulkstr_end_idx >= Len(buffer) THEN BulkErr
        ELSE IF bulkstr.ok
        THEN [ok |-> TRUE, val |-> BulkString(bulkstr.s), bytes_read |-> bulkstr_end_idx + 2]
        ELSE BulkErr

\* RespType::new_simple_string: [ok, val, bytes_read]
new_simple_string(buffer) ==
    LET r == read_till_crlf(Tail(buffer))
        utf8_str == FromUtf8(r.line)
    IN  IF r.found /\ utf8_str.ok
        THEN [ok |-> TRUE, val |-> SimpleString(utf8_str.s), bytes_read |-> r.size + 1]
        ELSE BulkErr

\* RespType::to_bytes
RECURSIVE to_bytes(_)

\* arr.iter().map(|v| v.to_bytes()).for_each(|b| arr_bytes.extend(b))
RECURSIVE extend_all(_)
extend_all(arr) == IF arr = <<>> THEN <<>> ELSE to_bytes(Head(arr)) \o extend_all(Tail(arr))

to_bytes(v) ==
    CASE v.t = "SimpleString" -> <<PLUS>> \o Utf8(v.s) \o CRLF
      [] v.t = "BulkString" -> <<DOLLAR>> \o Dec(CharCount(v.s)) \o CRLF \o Utf8(v.s) \o CRLF
      [] v.t = "NullBulkString" -> <<DOLLAR, MINUS, 49>> \o CRLF
      [] v.t = "Array" -> <<STAR>> \o Dec(Len(v.a)) \o CRLF \o extend_all(v.a)
      [] v.t = "SimpleError" -> <<MINUS>> \o Utf8(v.s) \o CRLF
      [] v.t = "Integer" -> <<COLON>> \o DecInt(v.i) \o CRLF

(***************************************************************************)
(* RespCommandFrame and CommandBuilder                                     *)
(***************************************************************************)
NoBuilder == [some |-> FALSE, parts |-> <<>>, num_parts |-> 0, parts_parsed |-> 0]

\* CommandBuilder::new
NewBuilder(num_parts) ==
    [some |-> TRUE, parts |-> <<>>, num_parts |-> num_parts, parts_parsed |-> 0]

add_part(b, part) ==
    [b EXCEPT !.parts = Append(@, part), !.parts_parsed = @ + 1]

\* a builder that is content with one part less
all_parts_received_one_early(b) == b.num_parts <= b.parts_parsed + 1

all_parts_received(b) == b.num_parts = b.parts_parsed

build(b) == b.parts

\* the outcome of a decode call: kind "None" is Ok(None), "Some" is
\* Ok(Some(frame)), "Err" is Err; src and cmd_builder are what the call leaves
Decoded(kind, frame, src, b) ==
    [kind |-> kind, frame |-> frame, src |-> src, cmd_builder |-> b]

\* the while loop without the reset of cmd_builder after a frame is built
RECURSIVE decode_loop_no_reset(_, _)
decode_loop_no_reset(b, src) ==
    IF src = <<>> THEN Decoded("None", <<>>, src, b)
    ELSE LET h == parse_bulk_string_len(src)
         IN  IF h.kind = "None" THEN Decoded("None", <<>>, src, b)
             ELSE IF h.kind = "Err" THEN Decoded("Err", <<>>, src, b)
             ELSE IF Len(src) < h.len + h.bytes_read + 2 THEN Decoded("None", <<>>, src, b)
             ELSE LET p == new_bulk_string(src)
                  IN  IF ~p.ok THEN Decoded("Err", <<>>, src, b)
                      ELSE LET b2 == add_part(b, p.val)
                               src2 == Drop(src, p.bytes_read)
                           IN  IF all_parts_received(b2)
                               THEN Decoded("Some", build(b2), src2, b2)
                               ELSE decode_loop_no_reset(b2, src2)

\* the while loop of decode
RECURSIVE decode_loop(_, _)
decode_loop(b, src) ==
    IF src = <<>> THEN Decoded("None", <<>>, src, b)
    ELSE LET h == parse_bulk_string_len(src)
         IN  IF h.kind = "None" THEN Decoded("None", <<>>, src, b)
             ELSE IF h.kind = "Err" THEN Decoded("Err", <<>>, src, b)
             ELSE IF Len(src) < h.len + h.bytes_read + 2 THEN Decoded("None", <<>>, src, b)
             ELSE LET p == new_bulk_string(src)
                  IN  IF ~p.ok THEN Decoded("Err", <<>>, src, b)
                      ELSE LET b2 == add_part(b, p.val)
                               src2 == Drop(src, p.bytes_read)
                           IN  IF all_parts_received(b2)
                               THEN Decoded("Some", build(b2), src2, NoBuilder)
                               ELSE decode_loop(b2, src2)

\* decode that looks for an array header in every call
decode_not_resumable(b, src) ==
    LET h == parse_array_len(src)
    IN  IF h.kind = "None" THEN Decoded("None", <<>>, src, b)
        ELSE IF h.kind = "Err" THEN Decoded("Err", <<>>, src, b)
        ELSE decode_loop(NewBuilder(h.len), Drop(src, h.bytes_read))

\* RespCommandFrame::decode
decode(b, src) ==
    IF ~b.some
    THEN LET h == parse_array_len(src)
         IN  IF h.kind = "None" THEN Decoded("None", <<>>, src, b)
             ELSE IF h.kind = "Err" THEN Decoded("Err", <<>>, src, b)
             ELSE decode_loop(NewBuilder(h.len), Drop(src, h.bytes_read))
    ELSE decode_loop(b, src)

\* no decode call yet
NoResult == [kind |-> "NoCall", frame |-> <<>>]

\* no parser applied yet
NotParsed == [by |-> "none", ok |-> FALSE, val |-> NullBulkString]

(***************************************************************************)
(* Command::from_resp_command_frame.  The parts of a frame hold Strings as *)
(* code points; the commands and the store hold them as strings.           *)
(***************************************************************************)
\* the printable ASCII characters, from code point 32 on; a "?" stands where
\* the double quote, the backslash and the backquote are
Ascii ==
    " !?#$%&'()*+,-./0123456789:;<=>?@ABCDEFGHIJKLMNOPQRSTUVWXYZ[?]^_?abcdefghijklmnopqrstuvwxyz{|}~"

\* the character of a code point
Chr(cp) ==
    IF cp = CR THEN "\r"
    ELSE IF cp = LF THEN "\n"
    ELSE IF cp >= 32 /\ cp - 31 <= Len(Ascii) THEN SubSeq(Ascii, cp - 31, cp - 31)
    ELSE "?"

\* the code points of the characters
OrdOf ==
    [ch \in {Chr(cp) : cp \in {CR, LF} \cup 32..(31 + Len(Ascii))} |->
        IF ch = "?" THEN 63
        ELSE CHOOSE cp \in {CR, LF} \cup 32..(31 + Len(Ascii)) : Chr(cp) = ch]

\* the code point of a character
Ord(ch) == OrdOf[ch]

\* a String given by its code points, as a string
RECURSIVE StringOf(_)
StringOf(cps) == IF cps = <<>> THEN "" ELSE Chr(Head(cps)) \o StringOf(Tail(cps))

\* the code points of a string
CodePoints(str) == [i \in 1..Len(str) |-> Ord(SubSeq(str, i, i))]

\* str::to_lowercase on ASCII
to_lowercase(cps) ==
    [i \in 1..Len(cps) |-> IF cps[i] >= 65 /\ cps[i] <= 90 THEN cps[i] + 32 ELSE cps[i]]

\* str::parse::<i64>: [ok, i]; an optional sign and then one digit or more
parse_i64(cps) ==
    LET signed == cps # <<>> /\ cps[1] \in {PLUS, MINUS}
        digits == IF signed THEN Tail(cps) ELSE cps
    IN  IF digits # <<>> /\ \A i \in 1..Len(digits) : IsDigit(digits[i])
        THEN [ok |-> TRUE,
              i |-> IF signed /\ cps[1] = MINUS
                    THEN 0 - DigitsValue(0, digits) ELSE DigitsValue(0, digits)]
        ELSE [ok |-> FALSE, i |-> 0]

\* Result<Command, CommandError>
CmdOk(c) == [cmd |-> c, err |-> "", ok |-> TRUE]

\* impl Display for CommandError gives err
CmdErr(e) == [cmd |-> NoCommand, err |-> e, ok |-> FALSE]

IsBulk(p) == p.t = "BulkString"

\* Ping::with_args
PingWithArgs(args) ==
    IF Len(args) = 0 THEN CmdOk(Command("PING", "", <<>>, 0, 0))
    ELSE IF IsBulk(args[1]) THEN CmdOk(Command("PING", "", <<StringOf(args[1].s)>>, 0, 0))
    ELSE CmdErr("Invalid message")

\* Get::with_args
GetWithArgs(args) ==
    IF Len(args) < 1 THEN CmdErr("Wrong number of arguments specified for 'GET' command")
    ELSE IF ~IsBulk(args[1]) THEN CmdErr("Invalid argument. Key must be a bulk string")
    ELSE CmdOk(Command("GET", StringOf(args[1].s), <<>>, 0, 0))

\* Set::with_args
SetWithArgs(args) ==
    IF Len(args) < 2 THEN CmdErr("Wrong number of arguments specified for 'SET' command")
    ELSE IF ~IsBulk(args[1]) THEN CmdErr("Invalid argument. Key must be a bulk string")
    ELSE IF ~IsBulk(args[2]) THEN CmdErr("Invalid argument. Value must be a bulk string")
    ELSE CmdOk(Command("SET", StringOf(args[1].s), <<StringOf(args[2].s)>>, 0, 0))

\* a push that asks for a key only
PushWithArgs_key_only(op, args) ==
    IF Len(args) < 1
    THEN CmdErr("Wrong number of arguments specified for '" \o op \o "' command")
    ELSE IF ~IsBulk(args[1]) THEN CmdErr("Invalid argument. Key must be a bulk string")
    ELSE IF \E i \in 2..Len(args) : ~IsBulk(args[i])
    THEN CmdErr("Invalid argument. Value must be a bulk string")
    ELSE CmdOk(Command(op, StringOf(args[1].s),
                       [i \in 1..(Len(args) - 1) |-> StringOf(args[i + 1].s)], 0, 0))

\* LPush::with_args, RPush::with_args
PushWithArgs(op, args) ==
    IF Len(args) < 2
    THEN CmdErr("Wrong number of arguments specified for '" \o op \o "' command")
    ELSE IF ~IsBulk(args[1]) THEN CmdErr("Invalid argument. Key must be a bulk string")
    ELSE IF \E i \in 2..Len(args) : ~IsBulk(args[i])
    THEN CmdErr("Invalid argument. Value must be a bulk string")
    ELSE CmdOk(Command(op, StringOf(args[1].s),
                       [i \in 1..(Len(args) - 1) |-> StringOf(args[i + 1].s)], 0, 0))

\* LRange::with_args
LRangeWithArgs(args) ==
    IF Len(args) < 3
    THEN CmdErr("Wrong number of arguments specified for 'LRANGE' command")
    ELSE IF ~IsBulk(args[1]) THEN CmdErr("Invalid argument. Key must be a bulk string")
    ELSE IF ~IsBulk(args[2]) \/ ~IsBulk(args[3])
    THEN IF IsBulk(args[2]) /\ ~parse_i64(args[2].s).ok
         THEN CmdErr("Start index should be an integer")
         ELSE CmdErr("Invalid argument. Value must be an integer in bulk string format")
    ELSE LET start_idx == parse_i64(args[2].s)
             end_idx == parse_i64(args[3].s)
         IN  IF ~start_idx.ok THEN CmdErr("Start index should be an integer")
             ELSE IF ~end_idx.ok THEN CmdErr("End index should be an integer")
             ELSE CmdOk(Command("LRANGE", StringOf(args[1].s), <<>>, start_idx.i, end_idx.i))

\* match cmd_name.to_lowercase().as_str() { ... }
match_cmd_name(cmd_name, lower, args) ==
    CASE lower = "ping" -> PingWithArgs(args)
      [] lower = "set" -> SetWithArgs(args)
      [] lower = "get" -> GetWithArgs(args)
      [] lower = "lpush" -> PushWithArgs("LPUSH", args)
      [] lower = "rpush" -> PushWithArgs("RPUSH", args)
      [] lower = "lrange" -> LRangeWithArgs(args)
      [] OTHER -> CmdErr("Unknown command: " \o cmd_name)

\* a dispatch on the name as it was sent
from_resp_command_frame_case_sensitive(frame) ==
    IF ~IsBulk(frame[1]) THEN CmdErr("Invalid command format")
    ELSE match_cmd_name(StringOf(frame[1].s), StringOf(frame[1].s), Tail(frame))

\* Command::from_resp_command_frame on a frame of one part or more
from_resp_command_frame(frame) ==
    IF ~IsBulk(frame[1]) THEN CmdErr("Invalid command format")
    ELSE match_cmd_name(StringOf(frame[1].s), StringOf(to_lowercase(frame[1].s)),
                        Tail(frame))

\* a PING whose reply is the message whether there is one or not
PingApply_echo_only(c) == IF c.vals # <<>> THEN BulkString(c.vals[1]) ELSE BulkString("")

\* Ping::apply
PingApply(c) == IF c.vals # <<>> THEN BulkString(c.vals[1]) ELSE SimpleString("PONG")

\* the reply of a command whose DB call returned r, and the map r leaves
Applied(c, r) == [reply |-> Apply(c, r), data |-> r.data]

\* Command::execute on the map d: the reply and the map it leaves
execute(c, d) ==
    IF c.op = "PING" THEN [reply |-> PingApply(c), data |-> d]
    ELSE Applied(c, Call(c, d))

\* a response with its Strings as code points, as to_bytes takes them
Wire(v) ==
    CASE v.t \in {"SimpleString", "BulkString", "SimpleError"} -> [v EXCEPT !.s = CodePoints(@)]
      [] v.t = "Array" -> [v EXCEPT !.a = [i \in 1..Len(@) |-> [@[i] EXCEPT !.s = CodePoints(@)]]]
      [] OTHER -> v

\* Encoder::encode: the bytes put on dst for a response
encode(resp) == to_bytes(Wire(resp))

(***************************************************************************)
(* Connection tasks and the lock                                           *)
(***************************************************************************)
Tasks == {"t1", "t2", "t3"}

NoTask == "none"

\* writer and readers: the tasks that hold a guard; queue: the tasks that
\* wait for one, in the order a fair lock serves them
Unlocked == [writer |-> NoTask, readers |-> {}, queue |-> <<>>]

\* a read guard handed out while a writer holds the lock
CanRead_unguarded(l) == TRUE

\* self.data.read() returns once no writer holds the lock
CanRead(l) == l.writer = NoTask

\* a write guard that excludes nobody
CanWrite_shared(l) == TRUE

\* self.data.write() returns once nobody holds the lock
CanWrite(l) == l.writer = NoTask /\ l.readers = {}

IsWrite(c) == c.op \in {"SET", "LPUSH", "RPUSH"}

IsPush(c) == c.op \in {"LPUSH", "RPUSH"}

\* the lock once task t has the guard of command c: self.data.write() for
\* set, lpush and rpush, self.data.read() for get and lrange
Acquire(l, t, c) ==
    IF IsWrite(c) THEN [l EXCEPT !.writer = t] ELSE [l EXCEPT !.readers = @ \cup {t}]

\* a read guard that outlives the call
Release_read_guard_kept(l, t, c) ==
    IF IsWrite(c) THEN [l EXCEPT !.writer = NoTask] ELSE l

\* the lock once the guard of task t is dropped at the return of the call
Release(l, t, c) ==
    IF IsWrite(c) THEN [l EXCEPT !.writer = NoTask] ELSE [l EXCEPT !.readers = @ \ {t}]

\* pc: "idle" before the first command, "locked" inside a DB call with the
\* guard held, "done" after it; found: the arm the lookup of the key took;
\* i: how many steps of the call's mutation are done
\* the bag of the elements of a sequence
RECURSIVE BagOf(_)
BagOf(q) == IF q = <<>> THEN EmptyBag ELSE BagOf(Tail(q)) (+) SetToBag({Head(q)})

IdleTask == [pc |-> "idle", cmd |-> NoCommand, found |-> "None", i |-> 0, reply |-> NoReply]

(***************************************************************************)
(* Spec: commands executed one at a time                                   *)
(***************************************************************************)
\* the parts of the state a specification does not use stay as they start
StoreIdle ==
    /\ data = EmptyDB
    /\ cmd = NoCommand
    /\ reply = NoReply
    /\ last_set = [k \in Keys |-> NoneVal]

ConcIdle ==
    /\ lock = Unlocked
    /\ task = [t \in Tasks |-> IdleTask]
    /\ committed = EmptyDB
    /\ pushed = [k \in Keys |-> EmptyBag]

CodecIdle ==
    /\ sent = <<>>
    /\ wire = <<>>
    /\ read_buf = <<>>
    /\ cmd_builder = NoBuilder
    /\ result = NoResult
    /\ emitted = <<>>

WireIdle ==
    /\ item = NoReply
    /\ dst = <<>>
    /\ back = NotParsed

CmdIdle ==
    /\ cmd_frame = <<>>
    /\ parsed = CmdErr("")

ConnIdle ==
    /\ conn = <<>>
    /\ script = <<>>

Init ==
    /\ StoreIdle
    /\ ConcIdle
    /\ ConnIdle
    /\ CmdIdle
    /\ CodecIdle
    /\ WireIdle

Execute(c) ==
    \E r \in {Call(c, data)} :
        /\ Elems(r.data) <= MaxElems
        /\ data' = r.data
        /\ cmd' = c
        /\ reply' = Apply(c, r)
        /\ last_set' = IF c.op = "SET" /\ r.err = "none"
                       THEN [last_set EXCEPT ![c.key] = SomeVal(c.vals[1])]
                       ELSE last_set
        /\ UNCHANGED <<concVars, codecVars, wireVars, connVars, cmdVars>>

ExecGet == \E k \in Keys : Execute(Command("GET", k, <<>>, 0, 0))

ExecSet == \E k \in Keys, v \in Vals : Execute(Command("SET", k, <<v>>, 0, 0))

ExecLPush == \E k \in Keys, v \in ValueVecs : Execute(Command("LPUSH", k, v, 0, 0))

ExecRPush == \E k \in Keys, v \in ValueVecs : Execute(Command("RPUSH", k, v, 0, 0))

ExecLRange ==
    \E k \in Keys, s \in Idxs, e \in Idxs : Execute(Command("LRANGE", k, <<>>, s, e))

Next == ExecGet \/ ExecSet \/ ExecLPush \/ ExecRPush \/ ExecLRange

Spec == Init /\ [][Next]_vars

\* SpecDB: the calls a caller of DB can make.  Besides the calls the commands
\* make, DB::lpush and DB::rpush take any Vec<String>, the empty one too.
ExecPushEmpty ==
    \E k \in Keys, op \in {"LPUSH", "RPUSH"} : Execute(Command(op, k, <<>>, 0, 0))

NextDB == Next \/ ExecPushEmpty

SpecDB == Init /\ [][NextDB]_vars

TypeOK ==
    /\ \A k \in Keys : data[k].type \in {"None", "String", "List"}
    /\ reply.t # "Panicked"

(***************************************************************************)
(* SpecConc: the DB calls of concurrent connection tasks, one action per   *)
(* step a call makes while it holds the lock guard                         *)
(***************************************************************************)
\* the commands the tasks issue
ConcCmds ==
    { Command("RPUSH", "k1", <<x>>, 0, 0) : x \in Vals }
    \cup { Command("RPUSH", "k1", <<"a", "b">>, 0, 0),
           Command("LPUSH", "k1", <<"b", "c">>, 0, 0),
           Command("LRANGE", "k1", <<>>, 0, MaxElems),
           Command("SET", "k2", <<"a">>, 0, 0),
           Command("GET", "k2", <<>>, 0, 0) }

\* the list a push works on: the deque the lookup of the key returned
ListOf(d, k) == IF IsList(d[k]) THEN d[k].l ELSE <<>>

\* the steps the mutation of command c takes when its lookup found f
Steps(c, f) ==
    CASE c.op = "SET" -> IF f = "List" THEN 0 ELSE 1
      [] IsPush(c) -> IF f = "List" THEN Len(c.vals) ELSE IF f = "None" THEN 1 ELSE 0
      [] OTHER -> 0

\* take the guard (self.data.read() or self.data.write()) and look the key up
Begin(t, c) ==
    /\ task[t].pc \in {"idle", "done"}
    /\ IF IsWrite(c) THEN CanWrite(lock) ELSE CanRead(lock)
    /\ IsPush(c) /\ data[c.key].type # "String" => Elems(data) + Len(c.vals) <= MaxElems
    /\ lock' = Acquire(lock, t, c)
    /\ task' = [task EXCEPT ![t] = [pc |-> "locked", cmd |-> c,
                    found |-> data[c.key].type, i |-> 0, reply |-> NoReply]]
    /\ UNCHANGED <<data, committed, pushed, seqVars, codecVars, wireVars, connVars, cmdVars>>

\* one step of the mutation: data.insert of set, one push_front or push_back
\* of the loop of lpush and rpush, or the data.insert of their None arm
Step(t) ==
    LET c == task[t].cmd
        f == task[t].found
        i == task[t].i
    IN  /\ task[t].pc = "locked"
        /\ i < Steps(c, f)
        /\ data' =
             CASE c.op = "SET" -> [data EXCEPT ![c.key] = StringEntry(c.vals[1])]
               [] f = "None" -> [data EXCEPT ![c.key] = ListEntry(VecDequeFrom(c.vals))]
               [] c.op = "LPUSH" ->
                    [data EXCEPT ![c.key] = ListEntry(push_front(ListOf(data, c.key), c.vals[i + 1]))]
               [] c.op = "RPUSH" ->
                    [data EXCEPT ![c.key] = ListEntry(push_back(ListOf(data, c.key), c.vals[i + 1]))]
        /\ task' = [task EXCEPT ![t].i = i + 1]
        /\ UNCHANGED <<lock, committed, pushed, seqVars, codecVars, wireVars, connVars, cmdVars>>

\* a push that returns the number of values it was given
EndReply_counts_values(t) ==
    LET c == task[t].cmd
        f == task[t].found
    IN  IF IsWrite(c)
        THEN IF Steps(c, f) = 0 THEN Apply(c, Err("WrongType", data))
             ELSE IF c.op = "SET" THEN Apply(c, Ok(<<>>, data))
             ELSE Apply(c, Ok(Len(c.vals), data))
        ELSE Apply(c, Call(c, data))

\* the value the call returns and the reply apply makes of it
EndReply(t) ==
    LET c == task[t].cmd
        f == task[t].found
    IN  IF IsWrite(c)
        THEN IF Steps(c, f) = 0 THEN Apply(c, Err("WrongType", data))
             ELSE IF c.op = "SET" THEN Apply(c, Ok(<<>>, data))
             ELSE Apply(c, Ok(Len(ListOf(data, c.key)), data))
        ELSE Apply(c, Call(c, data))

\* return: the guard is dropped and the reply is built
End(t) ==
    LET c == task[t].cmd
        r == EndReply(t)
    IN  /\ task[t].pc = "locked"
        /\ task[t].i = Steps(c, task[t].found)
        /\ lock' = Release(lock, t, c)
        /\ task' = [task EXCEPT ![t] = [pc |-> "done", cmd |-> c, found |-> "None", i |-> 0, reply |-> r]]
        /\ committed' = IF IsWrite(c) THEN data ELSE committed
        /\ pushed' = IF IsPush(c) /\ r.t = "Integer"
                     THEN [pushed EXCEPT ![c.key] = @ (+) BagOf(c.vals)]
                     ELSE pushed
        /\ UNCHANGED <<data, seqVars, codecVars, wireVars, connVars, cmdVars>>

InitConc ==
    /\ StoreIdle
    /\ ConcIdle
    /\ ConnIdle
    /\ CmdIdle
    /\ CodecIdle
    /\ WireIdle

BeginCmd == \E t \in Tasks, c \in ConcCmds : Begin(t, c)

StepCmd == \E t \in Tasks : Step(t)

EndCmd == \E t \in Tasks : End(t)

NextConc == BeginCmd \/ StepCmd \/ EndCmd

SpecConc == InitConc /\ [][NextConc]_vars

(***************************************************************************)
(* SpecLive: SpecConc with the wait for the lock as a state of its own,    *)
(* under a fair lock, one that serves its waiters first come first served, *)
(* and a fair scheduler                                                    *)
(***************************************************************************)
\* the commands the tasks issue
LiveCmds ==
    { Command("RPUSH", "k1", <<"a">>, 0, 0),
      Command("LRANGE", "k1", <<>>, 0, 1),
      Command("LRANGE", "k1", <<>>, I64Min, 0),
      Command("SET", "k2", <<"a">>, 0, 0),
      Command("GET", "k2", <<>>, 0, 0) }

\* the pushes that are under way
Pushing == {t \in Tasks : task[t].pc \in {"waiting", "locked"} /\ IsPush(task[t].cmd)}

\* the handler calls execute: the DB call asks for its guard
Request(t, c) ==
    /\ task[t].pc \in {"idle", "done"}
    /\ IsPush(c) => Elems(data) + Cardinality(Pushing) + Len(c.vals) <= MaxElems
    /\ task' = [task EXCEPT ![t] = [pc |-> "waiting", cmd |-> c,
                    found |-> "None", i |-> 0, reply |-> NoReply]]
    /\ lock' = [lock EXCEPT !.queue = Append(@, t)]
    /\ UNCHANGED <<data, committed, pushed, seqVars, codecVars, wireVars, connVars, cmdVars>>

\* self.data.read() or self.data.write() returns the guard
Grant(t) ==
    /\ task[t].pc = "waiting"
    /\ t = Head(lock.queue)
    /\ IF IsWrite(task[t].cmd) THEN CanWrite(lock) ELSE CanRead(lock)
    /\ lock' = Acquire([lock EXCEPT !.queue = Tail(@)], t, task[t].cmd)
    /\ task' = [task EXCEPT ![t].pc = "locked", ![t].found = data[task[t].cmd.key].type]
    /\ UNCHANGED <<data, committed, pushed, seqVars, codecVars, wireVars, connVars, cmdVars>>

\* PING with and without a message
PingCmds == { Command("PING", "", <<>>, 0, 0), Command("PING", "", <<"hello">>, 0, 0) }

\* the handler executes a PING: Ping::apply, which is given no DB
Ping(t, c) ==
    /\ task[t].pc \in {"idle", "done"}
    /\ task' = [task EXCEPT ![t] = [pc |-> "done", cmd |-> c, found |-> "None", i |-> 0,
                                    reply |-> execute(c, data).reply]]
    /\ data' = execute(c, data).data
    /\ UNCHANGED <<lock, committed, pushed, seqVars, codecVars, wireVars, connVars, cmdVars>>

\* the call panics: unwinding drops the read guard and the task ends
Panic(t) ==
    /\ task[t].pc = "locked"
    /\ task[t].cmd.op = "LRANGE"
    /\ LRangeOverflows(data, task[t].cmd.key, task[t].cmd.start, task[t].cmd.stop)
    /\ lock' = Release(lock, t, task[t].cmd)
    /\ task' = [task EXCEPT ![t].pc = "panicked", ![t].reply = Panicked]
    /\ UNCHANGED <<data, committed, pushed, seqVars, codecVars, wireVars, connVars, cmdVars>>

\* the call returns or panics
Return(t) == End(t) \/ Panic(t)

RequestCmd == \E t \in Tasks, c \in LiveCmds : Request(t, c)

GrantCmd == \E t \in Tasks : Grant(t)

ReturnCmd == \E t \in Tasks : Return(t)

PingCmd == \E t \in Tasks, c \in PingCmds : Ping(t, c)

NextLive == RequestCmd \/ GrantCmd \/ StepCmd \/ ReturnCmd \/ PingCmd

\* a task that can take a step is scheduled
Fairness ==
    \A t \in Tasks :
        /\ WF_vars(Grant(t))
        /\ WF_vars(Step(t))
        /\ WF_vars(Return(t))

SpecLive == InitConc /\ [][NextLive]_vars /\ Fairness

(***************************************************************************)
(* SpecCodec: a client writes command frames; reads deliver their bytes in *)
(* chunks of any size and decode is called on what has arrived             *)
(***************************************************************************)
\* most bulk strings in a command frame
MaxParts == 2

\* most command frames a client writes
MaxFrames == 2

\* most bytes a client writes
MaxWire == 38

\* the payloads: "", "é" (two bytes) and "a\r\n"
Payloads == {<<>>, <<233>>, <<97, CR, LF>>}

Frames == UNION { [1..n -> Payloads] : n \in 1..MaxParts }

\* format!("${}\r\n{}\r\n", key.len(), key)
ClientBulk(str) == <<DOLLAR>> \o Dec(ByteLen(str)) \o CRLF \o Utf8(str) \o CRLF

RECURSIVE ClientBulks(_)
ClientBulks(f) == IF f = <<>> THEN <<>> ELSE ClientBulk(Head(f)) \o ClientBulks(Tail(f))

\* the bytes the client writes for a command of these bulk strings
ClientEncode(f) == <<STAR>> \o Dec(Len(f)) \o CRLF \o ClientBulks(f)

RECURSIVE ClientEncodeAll(_)
ClientEncodeAll(fs) ==
    IF fs = <<>> THEN <<>> ELSE ClientEncode(Head(fs)) \o ClientEncodeAll(Tail(fs))

\* what a client writes before it waits: at most MaxFrames command frames of
\* at most MaxWire bytes together
Pipelines ==
    { p \in UNION { [1..n -> Frames] : n \in 1..MaxFrames } :
        Len(ClientEncodeAll(p)) <= MaxWire }

InitCodec ==
    /\ StoreIdle
    /\ ConcIdle
    /\ ConnIdle
    /\ CmdIdle
    /\ WireIdle
    /\ sent \in Pipelines
    /\ wire = ClientEncodeAll(sent)
    /\ read_buf = <<>>
    /\ cmd_builder = NoBuilder
    /\ result = NoResult
    /\ emitted = <<>>

\* a read of n bytes from the socket into the buffer
Read(n) ==
    /\ result.kind # "Err"
    /\ n <= Len(wire)
    /\ read_buf' = read_buf \o SubSeq(wire, 1, n)
    /\ wire' = Drop(wire, n)
    /\ UNCHANGED <<sent, cmd_builder, result, emitted, storeVars, concVars, wireVars, connVars, cmdVars>>

\* one call of decode on the buffer; after an error the handler stops
DecodeCall ==
    LET r == decode(cmd_builder, read_buf)
    IN  /\ result.kind # "Err"
        /\ read_buf' = r.src
        /\ cmd_builder' = r.cmd_builder
        /\ result' = [kind |-> r.kind, frame |-> r.frame]
        /\ emitted' = IF r.kind = "Some" THEN Append(emitted, r.frame) ELSE emitted
        /\ UNCHANGED <<sent, wire, storeVars, concVars, wireVars, connVars, cmdVars>>

ReadChunk == \E n \in 1..Len(wire) : Read(n)

NextCodec == ReadChunk \/ DecodeCall

SpecCodec == InitCodec /\ [][NextCodec]_vars

(***************************************************************************)
(* SpecStream: the bytes any peer may send, well-formed or not, cut into   *)
(* reads and fed to RespCommandFrame::decode                               *)
(***************************************************************************)
\* most pieces a peer writes
MaxPieces == 3

\* the pieces: "*0\r\n", "*1\r\n", "*2\r\n", "$1\r\na\r\n", "$1\r\nabc", "*x\r\n",
\* "*\r\n", "$x\r\n" and "x"
Pieces ==
    { <<STAR, 48, CR, LF>>,
      <<STAR, 49, CR, LF>>,
      <<STAR, 50, CR, LF>>,
      <<DOLLAR, 49, CR, LF, 97, CR, LF>>,
      <<DOLLAR, 49, CR, LF, 97, 98, 99>>,
      <<STAR, 120, CR, LF>>,
      <<STAR, CR, LF>>,
      <<DOLLAR, 120, CR, LF>>,
      <<120>> }

RECURSIVE Concat(_)
Concat(ps) == IF ps = <<>> THEN <<>> ELSE Head(ps) \o Concat(Tail(ps))

\* what a peer writes: at most MaxPieces pieces
Streams == { Concat(ps) : ps \in UNION { [1..n -> Pieces] : n \in 1..MaxPieces } }

InitStream ==
    /\ StoreIdle
    /\ ConcIdle
    /\ ConnIdle
    /\ CmdIdle
    /\ WireIdle
    /\ sent = <<>>
    /\ wire \in Streams
    /\ read_buf = <<>>
    /\ cmd_builder = NoBuilder
    /\ result = NoResult
    /\ emitted = <<>>

NextStream == ReadChunk \/ DecodeCall

SpecStream == InitStream /\ [][NextStream]_vars

(***************************************************************************)
(* SpecWire: a RespType is encoded and the parsers of the crate are        *)
(* applied to the bytes                                                    *)
(***************************************************************************)
\* most characters in a string
MaxStrLen == 2

\* strings of 'a' and 'é'
Texts == UNION { [1..n -> {97, 233}] : n \in 0..MaxStrLen }

Scalars ==
    { SimpleString(x) : x \in Texts }
    \cup { BulkString(x) : x \in Texts }
    \cup { SimpleError(x) : x \in Texts }
    \cup { Integer(i) : i \in (0 - 1)..10 }
    \cup { NullBulkString }

\* LPush::build_command, RPush::build_command: an Array of BulkStrings
BuiltCommands == { Array([i \in 1..Len(f) |-> BulkString(f[i])]) : f \in UNION { [1..n -> Texts] : n \in 1..2 } }

WireValues == Scalars \cup BuiltCommands \cup { Array(<<x, y>>) : x \in {Integer(1), NullBulkString}, y \in {SimpleString(<<97>>), Array(<<>>)} }

InitWire ==
    /\ StoreIdle
    /\ ConcIdle
    /\ ConnIdle
    /\ CmdIdle
    /\ CodecIdle
    /\ item \in WireValues
    /\ dst = <<>>
    /\ back = NotParsed

\* Encoder::encode: dst.put_slice(&item.to_bytes())
Encode ==
    /\ dst = <<>>
    /\ dst' = dst \o to_bytes(item)
    /\ UNCHANGED <<item, back, storeVars, concVars, codecVars, connVars, cmdVars>>

Parsed(by, ok, val) == [by |-> by, ok |-> ok, val |-> val]

\* RespType::new_bulk_string on the encoded bytes
ParseBulk ==
    /\ dst # <<>> /\ back.by = "none"
    /\ dst[1] = DOLLAR
    /\ LET r == new_bulk_string(dst) IN back' = Parsed("new_bulk_string", r.ok, r.val)
    /\ UNCHANGED <<item, dst, storeVars, concVars, codecVars, connVars, cmdVars>>

\* RespType::new_simple_string on the encoded bytes
ParseSimple ==
    /\ dst # <<>> /\ back.by = "none"
    /\ dst[1] = PLUS
    /\ LET r == new_simple_string(dst) IN back' = Parsed("new_simple_string", r.ok, r.val)
    /\ UNCHANGED <<item, dst, storeVars, concVars, codecVars, connVars, cmdVars>>

\* a new RespCommandFrame decoding the encoded bytes in one call
ParseFrame ==
    /\ dst # <<>> /\ back.by = "none"
    /\ dst[1] = STAR
    /\ LET r == decode(NoBuilder, dst)
       IN  back' = Parsed("decode", r.kind = "Some", Array(r.frame))
    /\ UNCHANGED <<item, dst, storeVars, concVars, codecVars, connVars, cmdVars>>

NextWire == Encode \/ ParseBulk \/ ParseSimple \/ ParseFrame

SpecWire == InitWire /\ [][NextWire]_vars

(***************************************************************************)
(* SpecConn: connections served by FrameHandler::handle, one task each,    *)
(* all on one store.  A client writes units, a command frame or bytes that *)
(* are no command frame; reads hand them to the handler in chunks.         *)
(***************************************************************************)
Conns == {"c1", "c2"}

\* most units the clients write, all connections together
MaxUnits == 2

\* a read delivers this many bytes, or all that are left
ChunkLen == 16

\* a command frame, as a client encodes it and as decode is to give it back,
\* and bytes that are no command frame
Unit(strs) ==
    [frame |-> [i \in 1..Len(strs) |-> BulkString(CodePoints(strs[i]))],
     bytes |-> ClientEncode([i \in 1..Len(strs) |-> CodePoints(strs[i])])]

Malformed(bytes) == [frame |-> <<>>, bytes |-> bytes]

Units ==
    { Unit(<<"RPUSH", "k1", "a">>), Unit(<<"get", "k1">>),
      Unit(<<"FOO">>), Unit(<<"GET">>), Unit(<<"GET", "k1", "k2">>),
      Unit(<<"LRANGE", "k1", "x", "0">>),
      Malformed(<<DOLLAR, 49, CR, LF, 97, CR, LF>>),
      Malformed(<<STAR, 49, CR, LF, DOLLAR, 120, CR, LF>>) }

UnitSeqs(n) == UNION { [1..m -> Units] : m \in 0..n }

RECURSIVE UnitBytes(_)
UnitBytes(us) == IF us = <<>> THEN <<>> ELSE Head(us).bytes \o UnitBytes(Tail(us))

\* FrameHandler::new on a connection whose client writes these bytes.
\* pc: "read" and "next" are the two halves of self.conn.next().await (wait
\* for bytes, decode the buffer), "send" is self.conn.send(response).await,
\* "closed" is after handle has returned; out: the responses sent, written:
\* their bytes; served: the frames decoded so far with their responses
NewHandler(bytes) ==
    [wire |-> bytes, gone |-> FALSE, pc |-> "read", buf |-> <<>>,
     cmd_builder |-> NoBuilder, response |-> NoReply, out |-> <<>>, served |-> <<>>,
     written |-> <<>>]

\* the handler once decode has returned r
after_decode(h, r) == [h EXCEPT !.buf = r.src, !.cmd_builder = r.cmd_builder]

\* a handler whose commands run on a store of its own
response_of_private_store(resp_cmd, d) ==
    IF resp_cmd.ok THEN [reply |-> execute(resp_cmd.cmd, EmptyDB).reply, data |-> d]
    ELSE [reply |-> SimpleError(resp_cmd.err), data |-> d]

\* let response = match resp_cmd { Ok(cmd) => cmd.execute(), Err(e) => ... }:
\* the response and the map it leaves; execute runs on the shared store
response_of(resp_cmd, d) ==
    IF resp_cmd.ok THEN execute(resp_cmd.cmd, d)
    ELSE [reply |-> SimpleError(resp_cmd.err), data |-> d]

\* a handler that gives up the connection when the response is an error
on_frame_error_is_fatal(h, frame, x) ==
    [h |-> [h EXCEPT !.response = x.reply,
                     !.served = Append(@, [frame |-> frame, response |-> x.reply]),
                     !.pc = IF x.reply.t \in {"Panicked", "SimpleError"}
                            THEN "closed" ELSE "send"],
     data |-> x.data]

\* Ok(cmd_frame) => ...: the handler holds the response x to the frame
on_frame(h, frame, x) ==
    [h |-> [h EXCEPT !.response = x.reply,
                     !.served = Append(@, [frame |-> frame, response |-> x.reply]),
                     !.pc = IF x.reply = Panicked THEN "closed" ELSE "send"],
     data |-> x.data]

\* a handler that logs a decode error and goes on reading
on_item_error_continues(h, r, d) ==
    CASE r.kind = "None" -> [h |-> [h EXCEPT !.pc = "read"], data |-> d]
      [] r.kind = "Err" -> [h |-> [h EXCEPT !.buf = <<>>, !.pc = "read"], data |-> d]
      [] r.kind = "Some" ->
           on_frame(h, r.frame, response_of(from_resp_command_frame(r.frame), d))

\* match resp_cmd { Ok(cmd_frame) => ..., Err(e) => break }, and no item yet
on_item(h, r, d) ==
    CASE r.kind = "None" -> [h |-> [h EXCEPT !.pc = "read"], data |-> d]
      [] r.kind = "Err" -> [h |-> [h EXCEPT !.pc = "closed"], data |-> d]
      [] r.kind = "Some" ->
           on_frame(h, r.frame, response_of(from_resp_command_frame(r.frame), d))

\* what decode returned, on the handler that decode left
on_decoded(h, r, d) == on_item(after_decode(h, r), r, d)

\* one turn of the while loop up to the send: [h, data]
on_next(h, d) == on_decoded(h, decode(h.cmd_builder, h.buf), d)

\* a handler that writes no error response
on_send_skips_errors(h, ok) ==
    IF ok THEN [h EXCEPT !.out = IF h.response.t = "SimpleError" THEN @
                                 ELSE Append(@, h.response),
                         !.written = IF h.response.t = "SimpleError" THEN @
                                     ELSE @ \o encode(h.response),
                         !.pc = "next"]
    ELSE [h EXCEPT !.pc = "closed"]

\* self.conn.send(response).await and the flush
on_send(h, ok) ==
    IF ok THEN [h EXCEPT !.out = Append(@, h.response),
                         !.written = @ \o encode(h.response),
                         !.pc = "next"]
    ELSE [h EXCEPT !.pc = "closed"]

ReadSizes(len) == {n \in 1..len : n = len \/ n = ChunkLen}

\* the store as earlier connections can have left it
StoresAtConnect == {EmptyDB, [EmptyDB EXCEPT !["k1"] = ListEntry(<<"a">>)]}

InitConn ==
    /\ data \in StoresAtConnect
    /\ cmd = NoCommand
    /\ reply = NoReply
    /\ last_set = [k \in Keys |-> NoneVal]
    /\ ConcIdle
    /\ CmdIdle
    /\ CodecIdle
    /\ WireIdle
    \* the connections are alike: c1 is the one that writes no fewer units
    /\ \E n \in 0..MaxUnits :
         \E s1 \in [1..n -> Units], s2 \in UnitSeqs(MaxUnits - n) :
            /\ Len(s2) <= n
            /\ script = [c \in Conns |-> IF c = "c1" THEN s1 ELSE s2]
    /\ conn = [c \in Conns |-> NewHandler(UnitBytes(script[c]))]

\* bytes of the client arrive in the read buffer
ConnRead(c) ==
    /\ conn[c].pc = "read"
    /\ \E n \in ReadSizes(Len(conn[c].wire)) :
         conn' = [conn EXCEPT ![c].buf = @ \o SubSeq(conn[c].wire, 1, n),
                              ![c].wire = Drop(@, n),
                              ![c].pc = "next"]
    /\ UNCHANGED <<script, cmdVars, storeVars, concVars, codecVars, wireVars>>

\* the stream ends: the client is gone and nothing is left to read
ConnEof(c) ==
    /\ conn[c].pc = "read"
    /\ conn[c].wire = <<>>
    /\ conn[c].gone
    /\ conn' = [conn EXCEPT ![c].pc = "closed"]
    /\ UNCHANGED <<script, cmdVars, storeVars, concVars, codecVars, wireVars>>

\* the handler decodes its buffer and, given a frame, runs the command
ConnNext(c) ==
    /\ conn[c].pc = "next"
    /\ \E r \in {on_next(conn[c], data)} :
         /\ conn' = [conn EXCEPT ![c] = r.h]
         /\ data' = r.data
    /\ UNCHANGED <<script, cmdVars, seqVars, concVars, codecVars, wireVars>>

\* the handler writes the response; the write can fail once the client is gone
ConnSend(c) ==
    /\ conn[c].pc = "send"
    /\ \E ok \in (IF conn[c].gone THEN {TRUE, FALSE} ELSE {TRUE}) :
         conn' = [conn EXCEPT ![c] = on_send(@, ok)]
    /\ UNCHANGED <<script, cmdVars, storeVars, concVars, codecVars, wireVars>>

\* the client closes its end, having written all it had to write; the handler
\* can tell only when it reads or sends, so the step is taken there
Disconnect(c) ==
    /\ ~conn[c].gone
    /\ conn[c].wire = <<>>
    /\ conn[c].pc \in {"read", "send"}
    /\ conn' = [conn EXCEPT ![c].gone = TRUE]
    /\ UNCHANGED <<script, cmdVars, storeVars, concVars, codecVars, wireVars>>

Reads == \E c \in Conns : ConnRead(c)

Eofs == \E c \in Conns : ConnEof(c)

Nexts == \E c \in Conns : ConnNext(c)

Sends == \E c \in Conns : ConnSend(c)

Disconnects == \E c \in Conns : Disconnect(c)

NextConn == Reads \/ Eofs \/ Nexts \/ Sends \/ Disconnects

SpecConn == InitConn /\ [][NextConn]_vars

(***************************************************************************)
(* SpecCmd: command frames, as decode yields them, parsed and executed one *)
(* after another                                                           *)
(***************************************************************************)
\* most arguments of a command frame
MaxArgs == 3

\* the command names the frames carry
Names ==
    {"PING", "ping", "PiNg", "GET", "get", "SET", "LPUSH", "RPUSH", "LRANGE", "lRange",
     "FOO", "foo", "f\r\no"}

\* the arguments after the key
Words == {"a", "0"}

\* the arguments of a frame: none, or the key k1 and up to MaxArgs - 1 words
ArgLists == {<<>>} \cup { <<"k1">> \o w : w \in UNION { [1..n -> Words] : n \in 0..(MaxArgs - 1) } }

\* a frame of bulk strings, as RespCommandFrame::decode yields it
FrameOf(strs) == [i \in 1..Len(strs) |-> BulkString(CodePoints(strs[i]))]

CmdFrames == { FrameOf(<<n>> \o a) : n \in Names, a \in ArgLists }

InitCmd ==
    /\ StoreIdle
    /\ ConcIdle
    /\ ConnIdle
    /\ CmdIdle
    /\ CodecIdle
    /\ WireIdle

\* the handler parses the frame and executes the command, or answers the error
Dispatch(f) ==
    \E p \in {from_resp_command_frame(f)} :
        \E x \in {response_of(p, data)} :
            /\ Elems(x.data) <= MaxElems
            /\ cmd_frame' = f
            /\ parsed' = p
            /\ cmd' = p.cmd
            /\ reply' = x.reply
            /\ data' = x.data
            /\ UNCHANGED <<last_set, concVars, codecVars, wireVars, connVars>>

NextCmd == \E f \in CmdFrames : Dispatch(f)

SpecCmd == InitCmd /\ [][NextCmd]_vars

(***************************************************************************)
(* Properties                                                              *)
(***************************************************************************)
WrongTypeReply == SimpleError(DBErrorText("WrongType"))

Reverse(q) == [i \in 1..Len(q) |-> q[Len(q) + 1 - i]]

BulkStrings(q) == Array([i \in 1..Len(q) |-> BulkString(q[i])])

\* the reply of LRANGE k 0 -1 on the map d
LRangeAll(d, k) ==
    LET c == Command("LRANGE", k, <<>>, 0, 0 - 1) IN Apply(c, Call(c, d))

\* how often x occurs in q
Count(q, x) == Cardinality({i \in 1..Len(q) : q[i] = x})

Quiescent == lock.writer = NoTask

\* the map a writer has made of the committed map after i steps of command c
Progress(c, f, i) ==
    IF i = 0 THEN committed
    ELSE IF f = "None" \/ c.op = "SET" THEN Call(c, committed).data
    ELSE Call([c EXCEPT !.vals = SubSeq(c.vals, 1, i)], committed).data

\* C1: concurrent pushes to one key lose and duplicate nothing: whenever no
\* writer is inside a call, the list under every key holds exactly the values
\* pushed to it so far, each as often as it was pushed; so when the N tasks
\* have each finished an RPUSH of a value of their own to the same key and
\* these are all the pushes to that key, the list has length N and holds each
\* of the values exactly once.
C1_ConcurrentRPush ==
    /\ Quiescent => \A k \in Keys : BagOf(ListOf(data, k)) = pushed[k]
    /\ \A k \in Keys :
         ( /\ \A t \in Tasks : /\ task[t].pc = "done"
                               /\ task[t].cmd.op = "RPUSH"
                               /\ task[t].cmd.key = k
                               /\ Len(task[t].cmd.vals) = 1
                               /\ task[t].reply.t = "Integer"
           /\ \A t, u \in Tasks : t # u => task[t].cmd.vals # task[u].cmd.vals
           /\ BagCardinality(pushed[k]) = Cardinality(Tasks) )
         => /\ IsList(data[k])
            /\ Len(data[k].l) = Cardinality(Tasks)
            /\ \A t \in Tasks : Count(data[k].l, task[t].cmd.vals[1]) = 1

\* C1 witness: the three tasks have each pushed one value of their own to k1
\* and no other push to k1 ever happened.
C1_Witness ==
    /\ \A t \in Tasks : /\ task[t].pc = "done"
                        /\ task[t].cmd.op = "RPUSH"
                        /\ task[t].cmd.key = "k1"
                        /\ Len(task[t].cmd.vals) = 1
                        /\ task[t].reply.t = "Integer"
    /\ \A t, u \in Tasks : t # u => task[t].cmd.vals # task[u].cmd.vals
    /\ BagCardinality(pushed["k1"]) = Cardinality(Tasks)
    /\ Len(ListOf(data, "k1")) = Cardinality(Tasks)

\* C2: store operations are atomic to each other: a task inside GET or LRANGE
\* sees the map as the last finished writer left it, never a push applied in
\* part; a task inside SET, LPUSH or RPUSH is the only task inside a call, and
\* the map differs from the committed one by its own steps alone.
C2_AtomicOps ==
    \A t \in Tasks :
        task[t].pc = "locked" =>
            IF IsWrite(task[t].cmd)
            THEN /\ \A u \in Tasks \ {t} : task[u].pc # "locked"
                 /\ data = Progress(task[t].cmd, task[t].found, task[t].i)
            ELSE data = committed

\* C2 witness: a two-value LPUSH has pushed one of its values, while another
\* task has an LRANGE of the same key behind it.
C2_Witness ==
    \E t, u \in Tasks :
        /\ task[t].pc = "locked"
        /\ task[t].cmd.op = "LPUSH"
        /\ task[t].i = 1
        /\ Len(task[t].cmd.vals) = 2
        /\ data # committed
        /\ task[u].pc = "done"
        /\ task[u].cmd.op = "LRANGE"
        /\ task[u].cmd.key = task[t].cmd.key
        /\ task[u].reply.t = "Array"
        /\ Len(task[u].reply.a) > 0

\* C3: a key that holds a List holds a List after every further command, and
\* every GET and SET on it is answered with the type-mismatch error.
C3_ListIsPermanent ==
    [][\A k \in Keys :
          IsList(data[k]) =>
              /\ IsList(data'[k])
              /\ (cmd'.key = k /\ cmd'.op \in {"GET", "SET"}) => reply' = WrongTypeReply]_vars

\* C3 witness: a SET has been refused on a key that holds a List.
C3_Witness ==
    /\ cmd.op = "SET"
    /\ IsList(data[cmd.key])
    /\ reply = WrongTypeReply

\* C4: a command answered with the type-mismatch error leaves the whole map,
\* the key it named and every other key, as it was.
C4_WrongTypeNoMutation == [][reply' = WrongTypeReply => data' = data]_vars

\* C4 witness: a push on a key that holds a String was refused while the
\* other key holds a value too.
C4_Witness ==
    /\ IsPush(cmd)
    /\ reply = WrongTypeReply
    /\ IsString(data[cmd.key])
    /\ \E k \in Keys \ {cmd.key} : data[k].type # "None"

\* C9: LPUSH k a b c on a key that is not in the map, then LRANGE k 0 -1,
\* returns [c, b, a].
C9_LPushOrder ==
    [][( /\ cmd'.op = "LPUSH"
         /\ Len(cmd'.vals) = 3
         /\ data[cmd'.key].type = "None"
         /\ data' # data )
       => LRangeAll(data', cmd'.key) = BulkStrings(Reverse(cmd'.vals))]_vars

\* C10: RPUSH k a b c on a key that is not in the map, then LRANGE k 0 -1,
\* returns [a, b, c].
C10_RPushOrder ==
    [][( /\ cmd'.op = "RPUSH"
         /\ Len(cmd'.vals) = 3
         /\ data[cmd'.key].type = "None"
         /\ data' # data )
       => LRangeAll(data', cmd'.key) = BulkStrings(cmd'.vals)]_vars

\* all bytes the client has written, and how many of them reads have delivered
Total == ClientEncodeAll(sent)

Delivered == Len(Total) - Len(wire)

\* where the j-th frame ends in the byte stream
EndOffset(j) == Len(ClientEncodeAll(SubSeq(sent, 1, j)))

\* a frame as decode returns it
BulkStringSeq(f) == [i \in 1..Len(f) |-> BulkString(f[i])]

\* the frame decode is working on
NextFrame == sent[Len(emitted) + 1]

\* the bytes decode has taken from the stream
Consumed ==
    EndOffset(Len(emitted))
    + (IF cmd_builder.some
       THEN Len(<<STAR>> \o Dec(cmd_builder.num_parts) \o CRLF)
            + Len(ClientBulks(SubSeq(NextFrame, 1, cmd_builder.parts_parsed)))
       ELSE 0)

\* a step that is a call of decode
IsDecodeCall == wire' = wire

C5_State ==
    /\ result.kind # "Err"
    /\ Len(emitted) <= Len(sent)
    /\ \A j \in 1..Len(emitted) :
          /\ emitted[j] = BulkStringSeq(sent[j])
          /\ decode(NoBuilder, ClientEncode(sent[j])).kind = "Some"
          /\ decode(NoBuilder, ClientEncode(sent[j])).frame = emitted[j]
          /\ Delivered >= EndOffset(j)
    /\ cmd_builder.some =>
          /\ Len(emitted) < Len(sent)
          /\ cmd_builder.num_parts = Len(NextFrame)
          /\ cmd_builder.parts = BulkStringSeq(SubSeq(NextFrame, 1, cmd_builder.parts_parsed))
    /\ read_buf = SubSeq(Total, Consumed + 1, Delivered)

C5_Step ==
    IsDecodeCall =>
        (result'.kind = "Some" <=>
            (Len(emitted) < Len(sent) /\ Delivered >= EndOffset(Len(emitted) + 1)))

\* C5: however the bytes of well-formed command frames are cut into reads,
\* decode never fails, takes every byte once (the buffer is always exactly the
\* delivered bytes it has not taken, the builder the parts of the frame taken
\* so far), returns no frame from a call made before the last byte of the
\* frame has arrived and returns the frame from the first call made after,
\* and the frame is the one a single call on all the bytes of it returns.
C5_PartialReads == []C5_State /\ [][C5_Step]_vars

\* C5 witness: a call has returned no frame with one part of the frame taken
\* and the start of the next bulk string left in the buffer.
C5_Witness ==
    /\ result.kind = "None"
    /\ cmd_builder.some
    /\ cmd_builder.parts_parsed = 1
    /\ cmd_builder.num_parts = 2
    /\ read_buf # <<>>
    /\ wire # <<>>

\* C6: a call of decode that returns a frame returns the next frame the
\* client sent, leaves no builder, and has taken the bytes up to the end of
\* that frame and no more, so that what stays in the buffer starts at the
\* array header of the next command; a call that starts without a builder
\* takes exactly the bytes of the command it returns.
C6_OneFramePerCommand ==
    [][(IsDecodeCall /\ result'.kind = "Some") =>
          /\ Len(emitted) < Len(sent)
          /\ emitted' = Append(emitted, BulkStringSeq(NextFrame))
          /\ ~cmd_builder'.some
          /\ read_buf' = SubSeq(Total, EndOffset(Len(emitted')) + 1, Delivered)
          /\ ~cmd_builder.some => read_buf = ClientEncode(NextFrame) \o read_buf'
          /\ parse_array_len(read_buf').kind # "Err"]_vars

\* C6 witness: two commands were in the buffer, a call has returned the first
\* and has left all bytes of the second.
C6_Witness ==
    /\ Len(sent) = 2
    /\ Len(emitted) = 1
    /\ result.kind = "Some"
    /\ ~cmd_builder.some
    /\ wire = <<>>
    /\ read_buf = ClientEncode(sent[2])

\* C7: what a parser of the crate makes of the bytes to_bytes produces is the
\* value encoded: new_bulk_string for a BulkString, new_simple_string for a
\* SimpleString, the frame decoder for a command built as an Array of
\* BulkStrings.
C7_RoundTrip ==
    (back.by # "none" /\ (item.t \in {"BulkString", "SimpleString"} \/ item \in BuiltCommands))
        => (back.ok /\ back.val = item)

\* C8: the length in the header of an encoded BulkString is the number of
\* bytes of the payload between the header and the closing CR LF.
C8_BulkLenInBytes ==
    (item.t = "BulkString" /\ dst # <<>>) =>
        LET h == read_till_crlf(dst)
        IN  /\ h.found
            /\ DigitsValue(0, Tail(h.line)) = Len(dst) - h.size - 2
            /\ DigitsValue(0, Tail(h.line)) = ByteLen(item.s)
(***************************************************************************)
(* LRANGE (Spec)                                                           *)
(***************************************************************************)
\* C11: LRANGE k 0 -1 on a key that holds a list answers with the whole
\* list, every element in stored order.
C11_LRangeWholeList ==
    [][( /\ cmd'.op = "LRANGE"
         /\ cmd'.start = 0
         /\ cmd'.stop = 0 - 1
         /\ IsList(data[cmd'.key]) )
       => reply' = BulkStrings(data[cmd'.key].l)]_vars

\* C12: LRANGE k -2 -1 on a list of two or more elements answers with its
\* last two elements, in stored order.
C12_LRangeLastTwo ==
    [][( /\ cmd'.op = "LRANGE"
         /\ cmd'.start = 0 - 2
         /\ cmd'.stop = 0 - 1
         /\ IsList(data[cmd'.key])
         /\ Len(data[cmd'.key].l) >= 2 )
       => LET l == data[cmd'.key].l
          IN  reply' = BulkStrings(<<l[Len(l) - 1], l[Len(l)]>>)]_vars

C12_Witness ==
    /\ cmd.op = "LRANGE"
    /\ cmd.start = 0 - 2
    /\ cmd.stop = 0 - 1
    /\ IsList(data[cmd.key])
    /\ Len(data[cmd.key].l) >= 3
    /\ reply.t = "Array"
    /\ Len(reply.a) = 2
    /\ reply.a[1] # reply.a[2]

\* C13: LRANGE on a key that is not in the map, whatever start and stop,
\* answers with the empty array and leaves the map without that key.
C13_LRangeMissingKey ==
    [][( /\ cmd'.op = "LRANGE"
         /\ data[cmd'.key].type = "None" )
       => /\ reply' = Array(<<>>)
          /\ data' = data]_vars

C13_Witness ==
    /\ cmd.op = "LRANGE"
    /\ cmd.stop >= cmd.start
    /\ data[cmd.key].type = "None"
    /\ reply = Array(<<>>)
    /\ \E k \in Keys : IsList(data[k])

(***************************************************************************)
(* GET and SET (Spec)                                                      *)
(***************************************************************************)
\* C14: GET k answers NullBulkString when no SET on k has succeeded and k
\* holds no List; once a SET on k has succeeded k holds a String and GET k
\* answers with the value of the last SET on k that succeeded, as a BulkString.
C14_GetLastSet ==
    [][cmd'.op = "GET"
       => LET k == cmd'.key
          IN  /\ (~last_set[k].some /\ ~IsList(data[k])) => reply' = NullBulkString
              /\ last_set[k].some => reply' = BulkString(last_set[k].s)
              /\ IsString(data[k]) => last_set[k].some]_vars

C14_Witness ==
    /\ cmd.op = "GET"
    /\ last_set[cmd.key].some
    /\ reply = BulkString(last_set[cmd.key].s)
    /\ \E k \in Keys \ {cmd.key} :
          last_set[k].some /\ last_set[k].s # last_set[cmd.key].s

(***************************************************************************)
(* The store under any call (SpecDB)                                       *)
(***************************************************************************)
\* C19: no call of get, set, lpush, rpush or lrange panics, whatever its
\* arguments: each returns a value or a DBError.
C19_StoreNeverPanics == reply # Panicked

(***************************************************************************)
(* Connections (SpecConn)                                                  *)
(***************************************************************************)
IsMalformed(u) == u.frame = <<>>

\* the place of the first unit of us that is no command frame, or Len(us) + 1
FirstMalformed(us) ==
    LET bad == {j \in 1..Len(us) : IsMalformed(us[j])}
    IN  IF bad = {} THEN Len(us) + 1 ELSE CHOOSE j \in bad : \A i \in bad : j <= i

\* the connection c serves one more frame in this step
Serves(c) == Len(conn'[c].served) = Len(conn[c].served) + 1

\* the frame and the response of the last frame c has served after the step
Served(c) == conn'[c].served[Len(conn'[c].served)]

\* the command finds its key holding the other variant
WrongVariant(c, d) ==
    \/ c.op \in {"GET", "SET"} /\ IsList(d[c.key])
    \/ c.op \in {"LPUSH", "RPUSH", "LRANGE"} /\ IsString(d[c.key])

IsWrongTypeError(r) ==
    /\ r.t = "SimpleError"
    /\ Len(r.s) >= 9
    /\ SubSeq(r.s, 1, 9) = "WRONGTYPE"

\* a connection with nothing left to read or to send
Drained(c) == conn[c].pc = "read" /\ conn[c].wire = <<>>

\* C15: a command that finds its key holding the wrong variant is answered
\* with a SimpleError whose text begins with WRONGTYPE; the store is left as it
\* was, the handler sends that reply and goes on to the next frame, and a
\* connection with nothing left to read has answered every command written.
C15_Step ==
    \A c \in Conns :
        /\ ( /\ Serves(c)
             /\ from_resp_command_frame(Served(c).frame).ok
             /\ from_resp_command_frame(Served(c).frame).cmd.op # "PING"
             /\ WrongVariant(from_resp_command_frame(Served(c).frame).cmd, data) )
           => /\ IsWrongTypeError(Served(c).response)
              /\ conn'[c].pc = "send"
              /\ data' = data
        /\ ( /\ conn[c].pc = "send"
             /\ IsWrongTypeError(conn[c].response)
             /\ ~conn[c].gone
             /\ conn'[c].pc # "send" )
           => /\ conn'[c].pc = "next"
              /\ conn'[c].out = Append(conn[c].out, conn[c].response)

C15_State ==
    \A c \in Conns :
        Drained(c) => /\ Len(conn[c].out) = Len(script[c])
                      /\ FirstMalformed(script[c]) > Len(script[c])

C15_DataErrorRecoverable == []C15_State /\ [][C15_Step]_vars

C15_Witness ==
    \E c \in Conns :
        /\ ~conn[c].gone
        /\ Drained(c)
        /\ Len(conn[c].out) = 2
        /\ IsWrongTypeError(conn[c].out[1])
        /\ conn[c].out[2] = Integer(2)

\* the arguments the commands take (the table of commands)
ArityOk(name, n) ==
    CASE name = "ping" -> n <= 1
      [] name = "get" -> n = 1
      [] name = "set" -> n = 2
      [] name \in {"lpush", "rpush"} -> n >= 2
      [] name = "lrange" -> n = 3
      [] OTHER -> FALSE

\* a frame with an unknown command name, a wrong number of arguments or an
\* LRANGE index that is no integer
IsCommandError(frame) ==
    LET name == StringOf(to_lowercase(frame[1].s))
    IN  \/ ~ArityOk(name, Len(frame) - 1)
        \/ /\ name = "lrange"
           /\ ~parse_i64(frame[3].s).ok \/ ~parse_i64(frame[4].s).ok

\* C16: a frame that is a command error is answered with one SimpleError, the
\* store is left as it was and the handler goes on to send and to read.
C16_CommandErrorRecoverable ==
    [][\A c \in Conns :
         (Serves(c) /\ IsCommandError(Served(c).frame))
         => /\ Served(c).response.t = "SimpleError"
            /\ data' = data
            /\ conn'[c].pc = "send"]_vars

\* C17: when decode returns an error the handler sends nothing, serves
\* nothing and returns; a handler that has returned stays as it is, so no byte
\* after the malformed unit is decoded and no unit after it is served.
C17_Step ==
    \A c \in Conns :
        /\ ( /\ conn[c].pc = "next"
             /\ conn'[c].pc # "next"
             /\ decode(conn[c].cmd_builder, conn[c].buf).kind = "Err" )
           => /\ conn'[c].pc = "closed"
              /\ conn'[c].out = conn[c].out
              /\ conn'[c].served = conn[c].served
              /\ conn'[c].wire = conn[c].wire
              /\ data' = data
        /\ conn[c].pc = "closed" => conn'[c] = conn[c]

C17_State ==
    \A c \in Conns :
        /\ Len(conn[c].served) < FirstMalformed(script[c])
        /\ Len(conn[c].out) < FirstMalformed(script[c])

C17_ProtocolErrorFatal == []C17_State /\ [][C17_Step]_vars

C17_Witness ==
    \E c \in Conns :
        /\ conn[c].pc = "closed"
        /\ ~conn[c].gone
        /\ IsMalformed(script[c][1])
        /\ Len(script[c]) = 2
        /\ ~IsMalformed(script[c][2])
        /\ conn[c].wire = <<>>
        /\ conn[c].out = <<>>

\* the step is a failure on c: its handler returns, it serves a frame with
\* an error response, or its client goes away
Fails(c) ==
    \/ conn[c].pc # "closed" /\ conn'[c].pc = "closed"
    \/ Serves(c) /\ Served(c).response.t = "SimpleError"
    \/ ~conn[c].gone /\ conn'[c].gone

\* the reply the store gives to the command of a unit
ReplyTo(u, d) == response_of(from_resp_command_frame(u.frame), d).reply

C20_State ==
    \A c \in Conns :
        /\ \A i \in 1..Len(conn[c].served) :
             conn[c].served[i].frame = script[c][i].frame
        /\ Len(conn[c].out) <= Len(conn[c].served)
        /\ \A i \in 1..Len(conn[c].out) : conn[c].out[i] = conn[c].served[i].response
        /\ conn[c].pc \in {"read", "next"} => Len(conn[c].out) = Len(conn[c].served)
        /\ conn[c].pc = "send" => Len(conn[c].out) + 1 = Len(conn[c].served)

C20_Step == \A c \in Conns : Serves(c) => Len(conn[c].out) = Len(conn[c].served)

C20_PerConnectionOrder == []C20_State /\ [][C20_Step]_vars

C20_Witness ==
    \E c \in Conns :
        /\ Drained(c)
        /\ Len(conn[c].out) = 2
        /\ conn[c].out[1] = Integer(1)
        /\ conn[c].out[2] = Integer(2)

(***************************************************************************)
(* The lock (SpecConc)                                                     *)
(***************************************************************************)
\* C21: a task holds the lock exactly while it is inside a DB call, as the
\* writer for SET, LPUSH and RPUSH and as a reader for GET and LRANGE; a task
\* outside a call, waiting on its connection, holds nothing, and a task that
\* begins a call held nothing before it.
C21_State ==
    \A t \in Tasks :
        /\ lock.writer = t <=> (task[t].pc = "locked" /\ IsWrite(task[t].cmd))
        /\ t \in lock.readers <=> (task[t].pc = "locked" /\ ~IsWrite(task[t].cmd))

C21_Step ==
    \A t \in Tasks :
        (task[t].pc # "locked" /\ task'[t].pc = "locked")
        => /\ lock.writer # t
           /\ t \notin lock.readers
           /\ IF task'[t].cmd.op \in {"SET", "LPUSH", "RPUSH"}
              THEN lock'.writer = t /\ lock'.readers = {}
              ELSE lock'.writer = NoTask /\ t \in lock'.readers

C21_LockScope == []C21_State /\ [][C21_Step]_vars

C21_Witness ==
    \E t \in Tasks, u \in Tasks, v \in Tasks :
        /\ t # u /\ u # v /\ t # v
        /\ task[t].pc = "done" /\ task[t].cmd.op = "GET"
        /\ task[u].pc = "locked" /\ task[u].cmd.op = "LRANGE"
        /\ task[v].pc = "locked" /\ task[v].cmd.op = "GET"
        /\ lock.readers = {u, v}

(***************************************************************************)
(* Completion (SpecLive)                                                   *)
(***************************************************************************)
\* the call of t is one whose index arithmetic does not overflow
NoOverflow(t) == ~(task[t].cmd.op = "LRANGE" /\ task[t].cmd.start = I64Min)

\* C22: every task that asks for the lock gets it, and every task that has
\* the lock finishes its call with a reply and the lock given back.
C22_RunsToCompletion ==
    \A t \in Tasks :
        /\ task[t].pc = "waiting" ~> task[t].pc = "locked"
        /\ task[t].pc = "locked" ~> (task[t].pc = "done" /\ task[t].reply # NoReply)

\* the same for the calls without overflow
C22_CompletesWithoutOverflow ==
    \A t \in Tasks :
        /\ task[t].pc = "waiting" ~> task[t].pc = "locked"
        /\ (task[t].pc = "locked" /\ NoOverflow(t))
             ~> (task[t].pc = "done" /\ task[t].reply # NoReply)

(***************************************************************************)
(* From bytes to bytes (SpecConn)                                          *)
(***************************************************************************)
\* the frame c serves in this step, as the client wrote it
ServedUnit(c) == script[c][Len(conn'[c].served)]

\* the response r and the store d2 are what the command of the frame gives on
\* the store d, or an error and the store d when the frame is no command
Executed(frame, d, r, d2) ==
    IF from_resp_command_frame(frame).ok
    THEN /\ r = execute(from_resp_command_frame(frame).cmd, d).reply
         /\ d2 = execute(from_resp_command_frame(frame).cmd, d).data
    ELSE /\ r.t = "SimpleError"
         /\ d2 = d

NameOf(f) == StringOf(f[1].s)

LowerNameOf(f) == StringOf(to_lowercase(f[1].s))

\* C24: a frame whose number of arguments is not one its command takes is
\* answered with an error and leaves the store as it was.
C24_ArityChecked ==
    [][(LowerNameOf(cmd_frame') \in {"ping", "get", "set", "lpush", "rpush", "lrange"}
        /\ ~ArityOk(LowerNameOf(cmd_frame'), Len(cmd_frame') - 1))
       => /\ ~parsed'.ok
          /\ reply'.t = "SimpleError"
          /\ data' = data]_vars

\* the command of each recognised name
OpOf(lower) ==
    CASE lower = "ping" -> "PING"
      [] lower = "get" -> "GET"
      [] lower = "set" -> "SET"
      [] lower = "lpush" -> "LPUSH"
      [] lower = "rpush" -> "RPUSH"
      [] lower = "lrange" -> "LRANGE"
      [] OTHER -> "none"

\* the frame with its name in lower case
Lowered(f) == [f EXCEPT ![1] = BulkString(to_lowercase(f[1].s))]

IsUnknownCommand(r) ==
    r.t = "SimpleError" /\ Len(r.s) >= 16 /\ SubSeq(r.s, 1, 16) = "Unknown command:"

\* C25: a frame whose name is none of the six, whatever its case, is answered
\* with the SimpleError "Unknown command: " and the name as it was sent, and
\* the store is left alone; a frame with one of the six names in any case is
\* parsed as the frame with the name in lower case is, into that command or
\* into an error of its arguments.
C25_NamesAndCase ==
    [][/\ OpOf(LowerNameOf(cmd_frame')) = "none"
          => /\ ~parsed'.ok
             /\ reply' = SimpleError("Unknown command: " \o NameOf(cmd_frame'))
             /\ data' = data
       /\ OpOf(LowerNameOf(cmd_frame')) # "none"
          => /\ parsed' = from_resp_command_frame(Lowered(cmd_frame'))
             /\ parsed'.ok => parsed'.cmd.op = OpOf(LowerNameOf(cmd_frame'))
             /\ ~IsUnknownCommand(reply')]_vars

C25_Witness ==
    /\ cmd_frame # <<>>
    /\ NameOf(cmd_frame) = "FOO"
    /\ reply = SimpleError("Unknown command: FOO")
    /\ IsList(data["k1"])

(***************************************************************************)
(* PING (SpecLive)                                                         *)
(***************************************************************************)
\* task t executes a PING in this step
Pings(t) == task'[t] # task[t] /\ task'[t].cmd.op = "PING"

\* C26: a PING is answered at once, whoever holds the lock: PONG as a
\* SimpleString without a message, the message as a BulkString with one; the
\* store and the lock stay as they are and the task has not waited.
C26_Ping ==
    [][\A t \in Tasks :
         Pings(t) =>
           /\ task'[t].pc = "done"
           /\ task'[t].reply = IF task'[t].cmd.vals = <<>> THEN SimpleString("PONG")
                               ELSE BulkString(task'[t].cmd.vals[1])
           /\ data' = data
           /\ lock' = lock
           /\ task[t].pc # "waiting"]_vars

C26_Witness ==
    \E t \in Tasks, u \in Tasks, v \in Tasks :
        /\ task[t].pc = "done" /\ task[t].reply = SimpleString("PONG")
        /\ task[v].pc = "done" /\ task[v].reply = BulkString("hello")
        /\ lock.writer = u
        /\ task[u].cmd.op = "RPUSH" /\ task[u].i = 0

(***************************************************************************)
(* The LRANGE algorithm (Spec)                                             *)
(***************************************************************************)
\* an index rounded against a list of L elements
Rounded(L, i) ==
    IF i < 0 THEN (IF L + i < 0 THEN 0 ELSE L + i)
    ELSE IF i >= L THEN L - 1
    ELSE i

\* the elements of l at the 0-based places from .. to
Slice(l, from, to) == [j \in 1..(to - from + 1) |-> l[from + j]]

\* what LRANGE S E is to return on the list l
Chosen(l, S, E) ==
    IF E < S THEN <<>>
    ELSE IF Rounded(Len(l), S) < Rounded(Len(l), E)
         THEN Slice(l, Rounded(Len(l), S), Rounded(Len(l), E))
    ELSE IF Rounded(Len(l), S) = Rounded(Len(l), E) THEN <<l[Rounded(Len(l), S) + 1]>>
    ELSE <<>>

Pushed(t) ==
    /\ task[t].pc = "done"
    /\ IsPush(task[t].cmd)
    /\ task[t].reply.t = "Integer"

\* the pushes of two tasks to one key have returned different integers
C28_State ==
    \A t \in Tasks : \A u \in Tasks \ {t} :
        Pushed(t) /\ Pushed(u) /\ task[t].cmd.key = task[u].cmd.key
        => task[t].reply.i # task[u].reply.i

\* a push that returns returns the length the list had when it took the
\* guard plus the number of its values, which is the length of the list now
\* and the number of values pushed to the key so far
C28_Step ==
    \A t \in Tasks :
        (task[t].pc = "locked" /\ task'[t].pc = "done" /\ Pushed(t)')
        => /\ task'[t].reply.i
                = Len(ListOf(committed, task[t].cmd.key)) + Len(task[t].cmd.vals)
           /\ IsList(data'[task[t].cmd.key])
           /\ Len(data'[task[t].cmd.key].l) = task'[t].reply.i
           /\ BagCardinality(pushed'[task[t].cmd.key]) = task'[t].reply.i

\* C28: a successful LPUSH or RPUSH of n values returns the old length of
\* the list (0 for an absent key) plus n, and the list has that length
\* afterwards; so the pushes of concurrent tasks to one key return different
\* integers, and single-value pushes return 1, 2, .. in turn.
C28_PushReturnsLength == []C28_State /\ [][C28_Step]_vars

C28_Witness ==
    \E t \in Tasks : \E u \in Tasks \ {t} : \E v \in Tasks \ {t, u} :
        /\ Pushed(t) /\ Pushed(u)
        /\ task[t].cmd.key = task[u].cmd.key
        /\ Len(task[t].cmd.vals) = 1 /\ Len(task[u].cmd.vals) = 1
        /\ task[t].reply.i = 1 /\ task[u].reply.i = 2
        /\ task[v].pc = "locked" /\ IsPush(task[v].cmd)
        /\ task[v].cmd.key = task[t].cmd.key
        /\ task[v].i = 1

(***************************************************************************)
(* Headers and the accumulator (SpecStream)                                *)
(***************************************************************************)
\* C29: when a call of decode has returned, there is no builder that has
\* received as many parts as its array header announced, whatever the
\* announced count, zero included: such a frame has been returned and the
\* builder dropped.
C29_NoCompleteBuilder ==
    cmd_builder.some => cmd_builder.parts_parsed # cmd_builder.num_parts

\* there is no CR LF in buf
NoCRLF(buf) == \A i \in 1..(Len(buf) - 1) : ~(buf[i] = CR /\ buf[i + 1] = LF)

\* on a buffer without CR LF both header parsers return Ok(None)
C30_State ==
    NoCRLF(read_buf)
    => /\ parse_array_len(read_buf).kind = "None"
       /\ parse_bulk_string_len(read_buf).kind = "None"

\* a call of decode on a buffer without CR LF returns Ok(None) and leaves
\* the buffer, the builder and the frames returned as they were; a call that
\* returns an error had a CR LF in its buffer
C30_Step ==
    IsDecodeCall
    => /\ NoCRLF(read_buf)
          => /\ result'.kind = "None"
             /\ read_buf' = read_buf
             /\ cmd_builder' = cmd_builder
             /\ emitted' = emitted
       /\ result'.kind = "Err" /\ result.kind # "Err" => ~NoCRLF(read_buf)

\* C30: while the buffer holds no CR LF (it is empty, holds a lone * or $,
\* or starts with a wrong byte) the header parsers and decode ask for more
\* data, with no frame, no error and no byte taken; a malformed header is an
\* error only once its CR LF is there.
C30_NeedMoreData == []C30_State /\ [][C30_Step]_vars

\* C30 witness: a call returned Ok(None) on a buffer that starts with a
\* wrong byte, and the bytes are still there with more to come.
C30_Witness ==
    /\ result.kind = "None"
    /\ ~cmd_builder.some
    /\ read_buf = <<120>>
    /\ wire # <<>>
    /\ wire[1] = STAR

(***************************************************************************)
(* Keys over time (Spec)                                                   *)
(***************************************************************************)
\* C31: a key that is in the store stays, a list never gets shorter, and a
\* key comes into the store only by a SET, LPUSH or RPUSH on it that
\* succeeds.
C31_KeysOnlyGrow ==
    [][\A k \in Keys :
          /\ data[k].type # "None" => data'[k].type # "None"
          /\ IsList(data[k])
             => IsList(data'[k]) /\ Len(data'[k].l) >= Len(data[k].l)
          /\ data[k].type = "None" /\ data'[k].type # "None"
             => /\ cmd'.op \in {"SET", "LPUSH", "RPUSH"}
                /\ cmd'.key = k
                /\ reply'.t # "SimpleError"]_vars

\* C31 witness: a list of two elements or more got a value more while the
\* other key holds a string.
C31_Witness ==
    /\ cmd.op = "RPUSH"
    /\ Len(cmd.vals) = 1
    /\ reply = Integer(3)
    /\ IsList(data[cmd.key])
    /\ Len(data[cmd.key].l) = 3
    /\ \E k \in Keys \ {cmd.key} : IsString(data[k])

(***************************************************************************)
(* The replies as a client reads them (SpecCmd)                            *)
(***************************************************************************)
RECURSIVE ValueEnd(_)
RECURSIVE ValuesEnd(_, _, _)
\* the number of bytes a RESP client takes from b for n values more after
\* acc bytes, 0 if they are not well-formed
ValuesEnd(b, n, acc) ==
    IF n = 0 THEN acc
    ELSE IF ValueEnd(b) = 0 THEN 0
    ELSE ValuesEnd(Drop(b, ValueEnd(b)), n - 1, acc + ValueEnd(b))

\* the number of bytes a RESP client takes from b for one value, 0 if the
\* bytes do not start with a well-formed value
ValueEnd(b) ==
    IF b = <<>> \/ ~read_till_crlf(b).found THEN 0
    ELSE LET line == read_till_crlf(b).line
             size == read_till_crlf(b).size
             n == parse_usize_from_buf(Tail(line))
         IN  CASE b[1] \in {PLUS, MINUS, COLON} -> size
               [] b[1] = DOLLAR ->
                    IF Tail(line) = <<MINUS, 49>> THEN size
                    ELSE IF ~n.ok \/ Len(b) < size + n.n + 2 THEN 0
                    ELSE IF b[size + n.n + 1] = CR /\ b[size + n.n + 2] = LF
                    THEN size + n.n + 2
                    ELSE 0
               [] b[1] = STAR -> IF n.ok THEN ValuesEnd(Drop(b, size), n.n, size) ELSE 0
               [] OTHER -> 0

\* C32: the bytes written for the reply to a command frame are one
\* well-formed RESP value and nothing more; an error reply is one line.
C32_OneReplyPerCommand ==
    cmd_frame # <<>> => ValueEnd(encode(reply)) = Len(encode(reply))

(***************************************************************************)
(* A push of several values and the pushes of each (Spec)                  *)
(***************************************************************************)
\* the map after op k x is executed for each value x of v in turn
RECURSIVE OneByOne(_, _, _, _)
OneByOne(op, d, k, v) ==
    IF v = <<>> THEN d
    ELSE OneByOne(op, Call(Command(op, k, <<Head(v)>>, 0, 0), d).data, k, Tail(v))

\* C33: on a key that is absent or holds a list, LPUSH k v1 .. vn leaves the
\* list that LPUSH k v1, .., LPUSH k vn leave when issued in this order, and
\* RPUSH likewise.
C33_PushSplits ==
    [][(IsPush(cmd') /\ ~IsString(data[cmd'.key]))
       => data'[cmd'.key] = OneByOne(cmd'.op, data, cmd'.key, cmd'.vals)[cmd'.key]]_vars

(***************************************************************************)
(* The frames the decoder emits (SpecStream)                               *)
(***************************************************************************)
\* the element count the array header of the frame under way announced, for
\* a call of decode on the buffer src with the builder b
Announced(b, src) == IF b.some THEN b.num_parts ELSE parse_array_len(src).len

\* a frame as from_resp_command_frame can take it
C34_Frame(f) ==
    /\ Len(f) >= 1
    /\ \A i \in 1..Len(f) : f[i].t = "BulkString"
    /\ from_resp_command_frame(f).err
         \notin {"Invalid command format",
                 "Invalid message",
                 "Invalid argument. Key must be a bulk string",
                 "Invalid argument. Value must be a bulk string",
                 "Invalid argument. Value must be an integer in bulk string format"}

\* C34: a frame that decode returns has as many elements as its array
\* header announced, has one element or more, and all of them are bulk
\* strings; so Command::from_resp_command_frame gets no empty frame and
\* never answers that the name or an argument is no bulk string.
C34_EmittedFrames ==
    /\ [](\A j \in 1..Len(emitted) : C34_Frame(emitted[j]))
    /\ [][(IsDecodeCall /\ result'.kind = "Some" /\ emitted' # emitted)
          => /\ result'.frame = emitted'[Len(emitted')]
             /\ Len(result'.frame) = Announced(cmd_builder, read_buf)]_vars

\* C34 witness: a frame of two bulk strings has been returned.
C34_Witness ==
    /\ result.kind = "Some"
    /\ Len(result.frame) = 2
    /\ emitted = <<result.frame>>
    /\ result.frame[1].t = "BulkString"

(***************************************************************************)
(* Lists are never empty (SpecCmd)                                         *)
(***************************************************************************)
\* C35: every list that command frames have stored holds one element or
\* more, because LPUSH and RPUSH without a value are rejected; so no LRANGE
\* is evaluated on a list of length 0.
C35_ListsNonEmpty ==
    /\ [](\A k \in Keys : IsList(data[k]) => Len(data[k].l) >= 1)
    /\ [][(parsed'.ok /\ IsPush(parsed'.cmd)) => Len(parsed'.cmd.vals) >= 1]_vars
    /\ [][(parsed'.ok /\ parsed'.cmd.op = "LRANGE" /\ IsList(data[parsed'.cmd.key]))
          => Len(data[parsed'.cmd.key].l) >= 1]_vars

\* C35 witness: a push without a value has been rejected while the key holds
\* a list, which an LRANGE can now be evaluated on.
C35_Witness ==
    /\ Len(cmd_frame) = 2
    /\ LowerNameOf(cmd_frame) \in {"lpush", "rpush"}
    /\ ~parsed.ok
    /\ reply.t = "SimpleError"
    /\ IsList(data["k1"])

(***************************************************************************)
(* A string stays a string (Spec)                                          *)
(***************************************************************************)
\* C36: a key that holds a String holds a String after every command, and
\* every LPUSH, RPUSH and LRANGE on it is answered with the type-mismatch
\* error.
C36_StringIsPermanent ==
    [][\A k \in Keys :
          IsString(data[k]) =>
              /\ IsString(data'[k])
              /\ (cmd'.key = k /\ cmd'.op \in {"LPUSH", "RPUSH", "LRANGE"})
                 => reply' = WrongTypeReply]_vars

\* C36 witness: an LRANGE whose stop is before its start has been refused on
\* a key that holds a String.
C36_Witness ==
    /\ cmd.op = "LRANGE"
    /\ cmd.stop < cmd.start
    /\ IsString(data[cmd.key])
    /\ reply = WrongTypeReply

(***************************************************************************)
(* The commands that only read (SpecCmd)                                   *)
(***************************************************************************)
\* GET, LRANGE and PING with every key and every index
ReadCmds ==
    PingCmds
    \cup { Command("GET", k, <<>>, 0, 0) : k \in Keys }
    \cup { Command("LRANGE", k, <<>>, st, en) :
             k \in Keys, st \in Idxs \cup {I64Min}, en \in Idxs \cup {I64Min} }

\* C37: GET, LRANGE and PING leave the store as it is, every key and every
\* value, whatever their arguments are and whether they succeed or fail.
C37_ReadOnly ==
    /\ [](\A c \in ReadCmds : execute(c, data).data = data)
    /\ [][LowerNameOf(cmd_frame') \in {"get", "lrange", "ping"} => data' = data]_vars

\* C37 witness: an LRANGE has returned the element of a list, which is
\* still there.
C37_Witness ==
    /\ cmd_frame # <<>>
    /\ LowerNameOf(cmd_frame) = "lrange"
    /\ parsed.ok
    /\ reply.t = "Array"
    /\ Len(reply.a) = 1
    /\ IsList(data["k1"])
    /\ Len(data["k1"].l) >= 1

(***************************************************************************)
(* The bytes of an emitted frame (SpecStream)                              *)
(***************************************************************************)
\* the parts the builder b holds
PartsOf(b) == IF b.some THEN b.parts ELSE <<>>

\* the bytes of the array header of n elements, as to_bytes writes it
HeaderBytes(n) == <<STAR>> \o Dec(n) \o CRLF

\* the encoding of what a call that returned the frame f has taken: the
\* array header if the call started without a builder, and the bulk strings
\* of f that the builder did not hold yet
TakenFor(b, f) ==
    (IF b.some THEN <<>> ELSE HeaderBytes(Len(f)))
    \o extend_all(SubSeq(f, Len(PartsOf(b)) + 1, Len(f)))

\* C38: a call of decode that returns a frame has taken from the buffer
\* exactly the encoding of what it added to the frame, the CR LF after each
\* payload included; bytes that are not this encoding are not accepted.
C38_CanonicalInput ==
    [][(IsDecodeCall /\ result'.kind = "Some" /\ emitted' # emitted)
       => read_buf = TakenFor(cmd_builder, result'.frame) \o read_buf']_vars

(***************************************************************************)
(* The arithmetic of round_list_index (SpecLive)                           *)
(***************************************************************************)
\* the indices round_list_indices rounds for the LRANGE of task t
RoundedBy(t) ==
    IF task[t].cmd.stop < task[t].cmd.start THEN {}
    ELSE {task[t].cmd.start, task[t].cmd.stop}

\* C39: for a list of one element or more and every i64 index, the minimum
\* value included, round_list_index overflows in no step of its arithmetic
\* and returns a position of the list.
C39_RoundsWithoutOverflow ==
    \A t \in Tasks :
        (/\ task[t].pc = "locked"
         /\ task[t].cmd.op = "LRANGE"
         /\ IsList(data[task[t].cmd.key])
         /\ Len(data[task[t].cmd.key].l) >= 1)
        => \A idx \in RoundedBy(t) :
              /\ ~round_list_index_i64(Len(data[task[t].cmd.key].l), idx).overflow
              /\ round_list_index(Len(data[task[t].cmd.key].l), idx)
                   \in 0..(Len(data[task[t].cmd.key].l) - 1)

====
